---- MODULE Spec2Model ----
(***************************************************************************)
(* Grid search library of Maze_Game: the GridWorld environment             *)
(* (env/gridworld.py) and the six search algorithms (algos/search/*.py),   *)
(* driven the way main.run_once and Tools/verify_maps.py drive them.       *)
(*                                                                         *)
(* A State is a pair <<row, col>>, 0-based as in the source.  Step costs   *)
(* are the integer values of the source's floats (1.0, 5.0, 10.0).         *)
(* One action is one iteration of an algorithm's while loop.               *)
(***************************************************************************)
EXTENDS Integers, Sequences, FiniteSets, TLC

VARIABLES
    grid,      \* GridWorld.grid: grid[r][c] is the tile symbol
    start,     \* GridWorld.start
    goal,      \* GridWorld.goal
    kwargs,    \* the keyword arguments the caller passes to the algorithm
    todo,      \* the algorithms still to be run on this map, in order
    frame,     \* the local variables of the running invocation
    results,   \* algorithm name -> what its invocation gave the caller
    other      \* the local variables of a second invocation on the same map

vars == <<grid, start, goal, kwargs, todo, frame, results, other>>

(***************************************************************************)
(* Bounds of the model.                                                    *)
(***************************************************************************)
\* The enumerated maps have at most this many cells.
MaxCells == 6

\* Tile symbols the enumerated maps put on the cells that are neither the
\* start nor the goal: floor, wall, mud.
FloorTiles == {"F", "O", "M"}

(***************************************************************************)
(* Python values.                                                          *)
(***************************************************************************)
None == <<>>
inf == 1000000

Max(a, b) == IF a >= b THEN a ELSE b
Abs(x) == IF x < 0 THEN -x ELSE x

\* A Python name is bound to a value: Bind(v, F) is F of the value of v,
\* with v evaluated once however often F reads it.
Bind(v, F(_)) == CHOOSE r \in {F(x) : x \in {v}} : TRUE

Last(s) == s[Len(s)]

Reverse(s) == [i \in 1 .. Len(s) |-> s[Len(s) + 1 - i]]

(***************************************************************************)
(* env/gridworld.py                                                        *)
(***************************************************************************)
WALL == "O"
START == "S"
GOAL == "G"

rows == Cardinality(DOMAIN grid)
cols == Cardinality(DOMAIN grid[0])

in_bounds(s) == 0 <= s[1] /\ s[1] < rows /\ 0 <= s[2] /\ s[2] < cols

\* A passable that lets the walls through.
passable_walls(s) == grid[s[1]][s[2]] \in {WALL, START, GOAL} \cup {"F", "M"}

passable(s) == grid[s[1]][s[2]] # WALL

step_cost(s) ==
    LET ch == grid[s[1]][s[2]] IN
    IF ch \in {"F", START, GOAL, " "} THEN 1
    ELSE IF ch = "R" THEN 1
    ELSE IF ch = "M" THEN 5
    ELSE IF ch = "W" THEN 10
    ELSE 1

\* A neighbors4 that forgets the step to the right.
Directions_no_right == << <<-1, 0>>, <<1, 0>>, <<0, -1>> >>

\* The four directions in the order neighbors4 tries them.
Directions == << <<-1, 0>>, <<1, 0>>, <<0, -1>>, <<0, 1>> >>

\* A neighbors4 that pairs a neighbor with the cost of the cell it is
\* reached from.
RECURSIVE neighbors4_from_source(_, _)
neighbors4_from_source(s, i) ==
    IF i > Len(Directions) THEN <<>>
    ELSE LET nxt == <<s[1] + Directions[i][1], s[2] + Directions[i][2]>>
             rest == neighbors4_from_source(s, i + 1)
         IN  IF in_bounds(nxt) /\ passable(nxt)
             THEN << <<nxt, step_cost(s)>> >> \o rest
             ELSE rest

RECURSIVE neighbors4_from(_, _)
neighbors4_from(s, i) ==
    IF i > Len(Directions) THEN <<>>
    ELSE LET nxt == <<s[1] + Directions[i][1], s[2] + Directions[i][2]>>
             rest == neighbors4_from(s, i + 1)
         IN  IF in_bounds(nxt) /\ passable(nxt)
             THEN << <<nxt, step_cost(nxt)>> >> \o rest
             ELSE rest

\* A neighbors4 whose direction order is not fixed: it turns round once the
\* caller has made its last call.
neighbors4_unordered(s) ==
    LET pairs == neighbors4_from(s, 1) IN
    IF todo = <<>>
    THEN [i \in 1 .. Len(pairs) |-> pairs[Len(pairs) + 1 - i]]
    ELSE pairs

\* A neighbors4 that reports every step at cost 1.
neighbors4_unit(s) ==
    LET pairs == neighbors4_from(s, 1) IN
    [i \in 1 .. Len(pairs) |-> <<pairs[i][1], 1>>]

neighbors4(s) == neighbors4_from(s, 1)

is_goal(s) == s = goal

\* A heuristic scaled by the cost of mud: it overestimates.
manhattan_scaled(s) == 5 * (Abs(s[1] - goal[1]) + Abs(s[2] - goal[2]))

\* A heuristic that forgets the absolute values.
manhattan_signed(s) == (s[1] - goal[1]) + (s[2] - goal[2])

\* The squared straight-line distance in place of the Manhattan distance.
manhattan_squared(s) ==
    (s[1] - goal[1]) * (s[1] - goal[1]) + (s[2] - goal[2]) * (s[2] - goal[2])

manhattan(s) == Abs(s[1] - goal[1]) + Abs(s[2] - goal[2])

\* from_file's scan for the start and the goal: the cells are visited row by
\* row and a later match overwrites an earlier one, so the last one stays.
RowMajorLE(a, b) == a[1] < b[1] \/ (a[1] = b[1] /\ a[2] <= b[2])

CellsOf(g) == (DOMAIN g) \X (DOMAIN g[0])

LastMarked(g, ch) ==
    LET marked == {s \in CellsOf(g) : g[s[1]][s[2]] = ch} IN
    IF marked = {} THEN None
    ELSE CHOOSE s \in marked : \A t \in marked : RowMajorLE(t, s)

from_file(g) ==
    LET s == LastMarked(g, START)
        e == LastMarked(g, GOAL)
    IN  IF s = None THEN [kind |-> "ValueError", msg |-> "Map missing 'S' (start)."]
        ELSE IF e = None THEN [kind |-> "ValueError", msg |-> "Map missing 'G' (goal)."]
        ELSE [kind |-> "GridWorld", grid |-> g, start |-> s, goal |-> e]

(***************************************************************************)
(* The callables handed to an algorithm.  kwargs.neighbors is the neighbor *)
(* function: env.neighbors4, or a caller's function that yields the same   *)
(* cells with the step costs of some cells replaced (kwargs.neighbors maps *)
(* those cells to the cost it reports; the empty map is env.neighbors4).   *)
(***************************************************************************)
RECURSIVE Reprice(_, _)
Reprice(pairs, over) ==
    IF pairs = <<>> THEN <<>>
    ELSE LET p == Head(pairs) IN
         << IF p[1] \in DOMAIN over THEN <<p[1], over[p[1]]>> ELSE p >>
            \o Reprice(Tail(pairs), over)

\* The caller's function may also price single moves: kwargs.tolls maps a
\* move <<cur, nxt>> to the cost it reports for it (the empty map for none).
RECURSIVE Retoll(_, _, _)
Retoll(cur, pairs, tolls) ==
    IF pairs = <<>> THEN <<>>
    ELSE LET p == Head(pairs) IN
         << IF <<cur, p[1]>> \in DOMAIN tolls THEN <<p[1], tolls[<<cur, p[1]>>]>> ELSE p >>
            \o Retoll(cur, Tail(pairs), tolls)

neighbors(s) ==
    Bind(neighbors4(s), LAMBDA pairs :
         Retoll(s, Reprice(pairs, kwargs.neighbors), kwargs.tolls))

h(s) == manhattan(s)

(***************************************************************************)
(* algos/search/base.py                                                    *)
(***************************************************************************)
SearchResult(found, path, cost, expanded, frontier_max) ==
    [kind |-> "SearchResult", found |-> found, path |-> path, cost |-> cost,
     expanded |-> expanded, frontier_max |-> frontier_max]

ValueError(msg) == [kind |-> "ValueError", msg |-> msg]

NoResult == [kind |-> "none"]

\* reconstruct_path: follow the parent links from end until None, then reverse.
\* At most k rounds of `while cur is not None`.
RECURSIVE walk_some(_, _, _)
walk_some(parent, cur, k) ==
    IF cur = None \/ k = 0 THEN <<>>
    ELSE <<cur>> \o walk_some(parent, parent[cur], k - 1)

\* The whole loop, sixteen rounds at a time (the evaluation of a path of
\* some hundred states stays shallow that way).
RECURSIVE walk_parents(_, _)
walk_parents(parent, cur) ==
    IF cur = None THEN <<>>
    ELSE Bind(walk_some(parent, cur, 16), LAMBDA some :
              some \o walk_parents(parent, parent[Last(some)]))

\* A reconstruct_path that forgets path.reverse().
reconstruct_path_unreversed(parent, end) == walk_parents(parent, end)

reconstruct_path(parent, end) ==
    Bind(walk_parents(parent, end), LAMBDA path : Reverse(path))

\* The sum of the entry costs of path[lo .. hi].
RECURSIVE CostOf(_, _, _)
CostOf(path, lo, hi) ==
    IF lo > hi THEN 0
    ELSE IF lo = hi THEN step_cost(path[lo])
    ELSE LET mid == (lo + hi) \div 2 IN
         CostOf(path, lo, mid) + CostOf(path, mid + 1, hi)

\* The weighted cost of path: the entry cost of every cell but the first.
PathCost(path) == CostOf(path, 2, Len(path))

\* A cost that counts the weights of the cells instead of the steps.
steps_weighted(path) == PathCost(path)

\* float(len(path) - 1): the cost bfs, dfs, dls and bds report.
steps(path) == Len(path) - 1

\* Every frame carries: algo, pc ("loop" while the while loop runs, then
\* "returned" or "raised"), ret (what the caller gets), expanded,
\* frontier_max, trace (the caller's list) and ncalls (how many times the
\* neighbor function has been called).
Idle == [algo |-> "none", pc |-> "idle", ret |-> NoResult]

Traced(trace, cur) == IF kwargs.has_trace THEN Append(trace, cur) ELSE trace

\* A high-water mark taken after the entry has been popped.
high_water_popped(frontier_max, len) == Max(frontier_max, len - 1)

\* frontier_max = max(frontier_max, len(...)), the first statement of the
\* while loop of bfs, dfs, dls, ucs and astar.
high_water(frontier_max, len) == Max(frontier_max, len)

\* A failure return that computes the cost as the found return does,
\* from the empty path.
exhausted_as_steps(f) ==
    SearchResult(FALSE, <<>>, Len(<<>>) - 1, f.expanded, f.frontier_max)

\* A failure return that reports the length of the trace as the count of
\* expansions.
exhausted_by_trace(f) ==
    SearchResult(FALSE, <<>>, inf, Len(f.trace), f.frontier_max)

\* The return after the loop, the same in all six algorithms:
\* SearchResult(False, [], float("inf"), expanded, frontier_max).
exhausted(f) == SearchResult(FALSE, <<>>, inf, f.expanded, f.frontier_max)

(***************************************************************************)
(* algos/search/bfs.py                                                     *)
(***************************************************************************)
bfs_init ==
    [algo |-> "bfs", pc |-> "loop", ret |-> NoResult,
     q |-> <<kwargs.start>>,
     parent |-> (kwargs.start :> None),
     expanded |-> 0, frontier_max |-> 1,
     trace |-> kwargs.trace, ncalls |-> 0]

\* A loop body that puts the new state at the left end of the queue.
RECURSIVE bfs_for_appendleft(_, _, _)
bfs_for_appendleft(nbrs, cur, pq) ==
    IF nbrs = <<>> THEN pq
    ELSE LET nxt == Head(nbrs)[1] IN
         IF nxt \notin DOMAIN pq.parent
         THEN Bind([parent |-> (nxt :> cur) @@ pq.parent, q |-> <<nxt>> \o pq.q],
                   LAMBDA st : bfs_for_appendleft(Tail(nbrs), cur, st))
         ELSE bfs_for_appendleft(Tail(nbrs), cur, pq)

\* A loop that queues every newly reached neighbor twice.
RECURSIVE bfs_for_twice(_, _, _)
bfs_for_twice(nbrs, cur, pq) ==
    IF nbrs = <<>> THEN pq
    ELSE LET nxt == Head(nbrs)[1] IN
         IF nxt \notin DOMAIN pq.parent
         THEN Bind([parent |-> (nxt :> cur) @@ pq.parent, q |-> pq.q \o <<nxt, nxt>>],
                   LAMBDA st : bfs_for_twice(Tail(nbrs), cur, st))
         ELSE bfs_for_twice(Tail(nbrs), cur, pq)

\* for nxt, _ in neighbors(cur): the effect on parent and q.
RECURSIVE bfs_for(_, _, _)
bfs_for(nbrs, cur, pq) ==
    IF nbrs = <<>> THEN pq
    ELSE LET nxt == Head(nbrs)[1] IN
         IF nxt \notin DOMAIN pq.parent
         THEN Bind([parent |-> (nxt :> cur) @@ pq.parent, q |-> Append(pq.q, nxt)],
                   LAMBDA st : bfs_for(Tail(nbrs), cur, st))
         ELSE bfs_for(Tail(nbrs), cur, pq)

\* One iteration of `while q`, or the return after the loop.
bfs_loop(f) ==
    IF f.q = <<>>
    THEN [f EXCEPT !.pc = "returned",
                   !.ret = exhausted(f)]
    ELSE LET frontier_max == high_water(f.frontier_max, Len(f.q))
             cur == Head(f.q)
             expanded == f.expanded + 1
             trace == Traced(f.trace, cur)
         IN  IF is_goal(cur)
             THEN LET path == reconstruct_path(f.parent, cur) IN
                  [f EXCEPT !.pc = "returned", !.q = Tail(f.q),
                            !.expanded = expanded, !.frontier_max = frontier_max,
                            !.trace = trace,
                            !.ret = SearchResult(TRUE, path, steps(path),
                                                 expanded, frontier_max)]
             ELSE LET pq == Bind(neighbors(cur), LAMBDA nbrs :
                                 bfs_for(nbrs, cur, [parent |-> f.parent, q |-> Tail(f.q)]))
                  IN  [f EXCEPT !.q = pq.q, !.parent = pq.parent,
                                !.expanded = expanded, !.frontier_max = frontier_max,
                                !.trace = trace, !.ncalls = f.ncalls + 1]

(***************************************************************************)
(* algos/search/dfs.py                                                     *)
(***************************************************************************)
dfs_init ==
    [algo |-> "dfs", pc |-> "loop", ret |-> NoResult,
     stack |-> <<kwargs.start>>,
     parent |-> (kwargs.start :> None),
     visited |-> {kwargs.start},
     expanded |-> 0, frontier_max |-> 1,
     trace |-> kwargs.trace, ncalls |-> 0]

\* A loop that pushes the new neighbors without recording their parent.
RECURSIVE dfs_for_no_parent(_, _, _)
dfs_for_no_parent(nbrs, cur, st) ==
    IF nbrs = <<>> THEN st
    ELSE LET nxt == Head(nbrs)[1] IN
         IF nxt \notin st.visited
         THEN Bind([visited |-> st.visited \cup {nxt},
                    parent |-> st.parent,
                    stack |-> Append(st.stack, nxt)],
                   LAMBDA new : dfs_for_no_parent(Tail(nbrs), cur, new))
         ELSE dfs_for_no_parent(Tail(nbrs), cur, st)

\* for nxt, _ in neighbors(cur): the effect on visited, parent and stack.
RECURSIVE dfs_for(_, _, _)
dfs_for(nbrs, cur, st) ==
    IF nbrs = <<>> THEN st
    ELSE LET nxt == Head(nbrs)[1] IN
         IF nxt \notin st.visited
         THEN Bind([visited |-> st.visited \cup {nxt},
                    parent |-> (nxt :> cur) @@ st.parent,
                    stack |-> Append(st.stack, nxt)],
                   LAMBDA new : dfs_for(Tail(nbrs), cur, new))
         ELSE dfs_for(Tail(nbrs), cur, st)

\* stack.pop(): the stack without its last element.
Pop(stack) == SubSeq(stack, 1, Len(stack) - 1)

\* One iteration of `while stack`, or the return after the loop.
dfs_loop(f) ==
    IF f.stack = <<>>
    THEN [f EXCEPT !.pc = "returned",
                   !.ret = exhausted(f)]
    ELSE LET frontier_max == high_water(f.frontier_max, Len(f.stack))
             cur == Last(f.stack)
             expanded == f.expanded + 1
             trace == Traced(f.trace, cur)
         IN  IF is_goal(cur)
             THEN LET path == reconstruct_path(f.parent, cur) IN
                  [f EXCEPT !.pc = "returned", !.stack = Pop(f.stack),
                            !.expanded = expanded, !.frontier_max = frontier_max,
                            !.trace = trace,
                            !.ret = SearchResult(TRUE, path, steps(path),
                                                 expanded, frontier_max)]
             ELSE LET st == Bind(neighbors(cur), LAMBDA nbrs :
                                 dfs_for(nbrs, cur,
                                         [visited |-> f.visited, parent |-> f.parent,
                                          stack |-> Pop(f.stack)]))
                  IN  [f EXCEPT !.stack = st.stack, !.parent = st.parent,
                                !.visited = st.visited,
                                !.expanded = expanded, !.frontier_max = frontier_max,
                                !.trace = trace, !.ncalls = f.ncalls + 1]

(***************************************************************************)
(* algos/search/dls.py                                                     *)
(***************************************************************************)
\* The default of the depth_limit parameter.
depth_limit_default == 300

dls_init ==
    [algo |-> "dls", pc |-> "loop", ret |-> NoResult,
     stack |-> << <<kwargs.start, 0>> >>,
     parent |-> (kwargs.start :> None),
     best_depth_seen |-> (kwargs.start :> 0),
     expanded |-> 0, frontier_max |-> 1,
     trace |-> kwargs.trace, ncalls |-> 0]

\* A neighbor loop that pushes the neighbors at the depth of cur.
RECURSIVE dls_for_flat(_, _, _, _)
dls_for_flat(nbrs, cur, depth, st) ==
    IF nbrs = <<>> THEN st
    ELSE LET nxt == Head(nbrs)[1]
             nd == depth
         IN  IF nxt \notin DOMAIN st.best_depth_seen \/ nd < st.best_depth_seen[nxt]
             THEN Bind([best_depth_seen |-> (nxt :> nd) @@ st.best_depth_seen,
                        parent |-> (nxt :> cur) @@ st.parent,
                        stack |-> Append(st.stack, <<nxt, nd>>)],
                       LAMBDA new : dls_for_flat(Tail(nbrs), cur, depth, new))
             ELSE dls_for_flat(Tail(nbrs), cur, depth, st)

\* A neighbor loop that records the depth of cur for the state it pushes.
RECURSIVE dls_for_records_cur(_, _, _, _)
dls_for_records_cur(nbrs, cur, depth, st) ==
    IF nbrs = <<>> THEN st
    ELSE LET nxt == Head(nbrs)[1]
             nd == depth + 1
         IN  IF nxt \notin DOMAIN st.best_depth_seen \/ nd < st.best_depth_seen[nxt]
             THEN Bind([best_depth_seen |-> (nxt :> depth) @@ st.best_depth_seen,
                        parent |-> (nxt :> cur) @@ st.parent,
                        stack |-> Append(st.stack, <<nxt, nd>>)],
                       LAMBDA new : dls_for_records_cur(Tail(nbrs), cur, depth, new))
             ELSE dls_for_records_cur(Tail(nbrs), cur, depth, st)

\* A neighbor loop that pushes a state again when it is reached at the depth
\* already recorded for it.
RECURSIVE dls_for_equal(_, _, _, _)
dls_for_equal(nbrs, cur, depth, st) ==
    IF nbrs = <<>> THEN st
    ELSE LET nxt == Head(nbrs)[1]
             nd == depth + 1
         IN  IF nxt \notin DOMAIN st.best_depth_seen \/ nd <= st.best_depth_seen[nxt]
             THEN Bind([best_depth_seen |-> (nxt :> nd) @@ st.best_depth_seen,
                        parent |-> (nxt :> cur) @@ st.parent,
                        stack |-> Append(st.stack, <<nxt, nd>>)],
                       LAMBDA new : dls_for_equal(Tail(nbrs), cur, depth, new))
             ELSE dls_for_equal(Tail(nbrs), cur, depth, st)

\* for nxt, _ in neighbors(cur): the effect on best_depth_seen, parent and stack.
RECURSIVE dls_for(_, _, _, _)
dls_for(nbrs, cur, depth, st) ==
    IF nbrs = <<>> THEN st
    ELSE LET nxt == Head(nbrs)[1]
             nd == depth + 1
         IN  IF nxt \notin DOMAIN st.best_depth_seen \/ nd < st.best_depth_seen[nxt]
             THEN Bind([best_depth_seen |-> (nxt :> nd) @@ st.best_depth_seen,
                        parent |-> (nxt :> cur) @@ st.parent,
                        stack |-> Append(st.stack, <<nxt, nd>>)],
                       LAMBDA new : dls_for(Tail(nbrs), cur, depth, new))
             ELSE dls_for(Tail(nbrs), cur, depth, st)

\* A limit test that lets the entries at the limit through.
dls_at_limit_strict(depth) == depth > kwargs.depth_limit

\* A limit test that stops two levels early.
dls_at_limit_early(depth) == depth + 2 >= kwargs.depth_limit

\* if depth >= depth_limit: the entry is not expanded.
dls_at_limit(depth) == depth >= kwargs.depth_limit

\* A limit test that sits ahead of stack.pop(): the entry stays where it is.
dls_continue_unpopped(f) == f

\* continue: the popped entry has been counted and traced, nothing is pushed.
dls_continue(f) ==
    [f EXCEPT !.stack = Pop(f.stack),
              !.expanded = f.expanded + 1,
              !.frontier_max = high_water(f.frontier_max, Len(f.stack)),
              !.trace = Traced(f.trace, Last(f.stack)[1])]

\* One iteration of `while stack`, or the return after the loop.
dls_loop(f) ==
    IF f.stack = <<>>
    THEN [f EXCEPT !.pc = "returned",
                   !.ret = exhausted(f)]
    ELSE LET frontier_max == high_water(f.frontier_max, Len(f.stack))
             cur == Last(f.stack)[1]
             depth == Last(f.stack)[2]
             expanded == f.expanded + 1
             trace == Traced(f.trace, cur)
         IN  IF is_goal(cur)
             THEN LET path == reconstruct_path(f.parent, cur) IN
                  [f EXCEPT !.pc = "returned", !.stack = Pop(f.stack),
                            !.expanded = expanded, !.frontier_max = frontier_max,
                            !.trace = trace,
                            !.ret = SearchResult(TRUE, path, steps(path),
                                                 expanded, frontier_max)]
             ELSE
             IF dls_at_limit(depth)
             THEN dls_continue(f)
             ELSE LET st == Bind(neighbors(cur), LAMBDA nbrs :
                                 dls_for(nbrs, cur, depth,
                                         [best_depth_seen |-> f.best_depth_seen,
                                          parent |-> f.parent, stack |-> Pop(f.stack)]))
                  IN  [f EXCEPT !.stack = st.stack, !.parent = st.parent,
                                !.best_depth_seen = st.best_depth_seen,
                                !.expanded = expanded, !.frontier_max = frontier_max,
                                !.trace = trace, !.ncalls = f.ncalls + 1]

(***************************************************************************)
(* algos/search/ucs.py                                                     *)
(* The heap is the set of its _PQItem entries: the tie field makes the     *)
(* order (g, tie) total, so heappop's answer does not depend on the        *)
(* array layout heapq keeps.                                               *)
(***************************************************************************)
ucs_PQItem(g, tie, state) == [g |-> g, tie |-> tie, state |-> state]

\* An ordering with the fields declared the other way round: by tie first.
ucs_lt_by_tie(a, b) == a.tie < b.tie \/ (a.tie = b.tie /\ a.g < b.g)

\* _PQItem ordering (order=True, state excluded): by g, then by tie.
ucs_lt(a, b) == a.g < b.g \/ (a.g = b.g /\ a.tie < b.tie)

ucs_heappop(heap) == CHOOSE a \in heap : \A b \in heap \ {a} : ucs_lt(a, b)

ucs_init ==
    [algo |-> "ucs", pc |-> "loop", ret |-> NoResult,
     heap |-> {ucs_PQItem(0, 0, kwargs.start)},
     tie |-> 0,
     g_cost |-> (kwargs.start :> 0),
     parent |-> (kwargs.start :> None),
     expanded |-> 0, frontier_max |-> 1,
     trace |-> kwargs.trace, ncalls |-> 0]

\* A check of the cost so far plus the step, not of the step.
ucs_negative_total(cur_g, step) == cur_g + step < 0

\* if step < 0: raise ValueError
ucs_negative(cur_g, step) == step < 0

\* A neighbor loop that also takes a path of equal cost.
RECURSIVE ucs_for_equal(_, _, _, _)
ucs_for_equal(nbrs, cur, cur_g, st) ==
    IF nbrs = <<>> THEN st
    ELSE LET nxt == Head(nbrs)[1]
             step == Head(nbrs)[2]
             new_g == cur_g + step
         IN  IF step < 0 THEN [st EXCEPT !.raised = TRUE]
             ELSE IF nxt \notin DOMAIN st.g_cost \/ new_g <= st.g_cost[nxt]
             THEN Bind([st EXCEPT !.g_cost = (nxt :> new_g) @@ st.g_cost,
                                  !.parent = (nxt :> cur) @@ st.parent,
                                  !.tie = st.tie + 1,
                                  !.heap = st.heap \cup
                                           {ucs_PQItem(new_g, st.tie + 1, nxt)}],
                       LAMBDA new : ucs_for_equal(Tail(nbrs), cur, cur_g, new))
             ELSE ucs_for_equal(Tail(nbrs), cur, cur_g, st)

\* for nxt, step in neighbors(cur): the effect on g_cost, parent, tie and
\* heap; raised is set, and the loop left, at the first negative step.
RECURSIVE ucs_for(_, _, _, _)
ucs_for(nbrs, cur, cur_g, st) ==
    IF nbrs = <<>> THEN st
    ELSE LET nxt == Head(nbrs)[1]
             step == Head(nbrs)[2]
             new_g == cur_g + step
         IN  IF ucs_negative(cur_g, step) THEN [st EXCEPT !.raised = TRUE]
             ELSE IF nxt \notin DOMAIN st.g_cost \/ new_g < st.g_cost[nxt]
             THEN Bind([st EXCEPT !.g_cost = (nxt :> new_g) @@ st.g_cost,
                                  !.parent = (nxt :> cur) @@ st.parent,
                                  !.tie = st.tie + 1,
                                  !.heap = st.heap \cup
                                           {ucs_PQItem(new_g, st.tie + 1, nxt)}],
                       LAMBDA new : ucs_for(Tail(nbrs), cur, cur_g, new))
             ELSE ucs_for(Tail(nbrs), cur, cur_g, st)

\* g_cost.get(cur, float("inf"))
g_cost_get(g_cost, cur) == IF cur \in DOMAIN g_cost THEN g_cost[cur] ELSE inf

\* A test that discards an entry only when it is cheaper than the best
\* known cost.
stale_cheaper(cur_g, best) == cur_g < best

\* A test that discards no entry.
stale_never(cur_g, best) == FALSE

\* if cur_g != g_cost.get(cur, float("inf")): continue
stale(cur_g, best) == cur_g # best

\* One iteration of `while heap`, or the return after the loop.
ucs_loop(f) ==
    IF f.heap = {}
    THEN [f EXCEPT !.pc = "returned",
                   !.ret = exhausted(f)]
    ELSE Bind(ucs_heappop(f.heap), LAMBDA item :
         LET frontier_max == high_water(f.frontier_max, Cardinality(f.heap))
             heap == f.heap \ {item}
             cur == item.state
             cur_g == item.g
             expanded == f.expanded + 1
             trace == Traced(f.trace, cur)
         IN  IF stale(cur_g, g_cost_get(f.g_cost, cur))
             THEN [f EXCEPT !.heap = heap, !.frontier_max = frontier_max]
             ELSE
             IF is_goal(cur)
             THEN LET path == reconstruct_path(f.parent, cur) IN
                  [f EXCEPT !.pc = "returned", !.heap = heap,
                            !.expanded = expanded, !.frontier_max = frontier_max,
                            !.trace = trace,
                            !.ret = SearchResult(TRUE, path, f.g_cost[cur],
                                                 expanded, frontier_max)]
             ELSE LET st == Bind(neighbors(cur), LAMBDA nbrs :
                                 ucs_for(nbrs, cur, cur_g,
                                         [g_cost |-> f.g_cost, parent |-> f.parent,
                                          tie |-> f.tie, heap |-> heap,
                                          raised |-> FALSE]))
                      g == [f EXCEPT !.heap = st.heap, !.parent = st.parent,
                                     !.g_cost = st.g_cost, !.tie = st.tie,
                                     !.expanded = expanded,
                                     !.frontier_max = frontier_max,
                                     !.trace = trace, !.ncalls = f.ncalls + 1]
                  IN  IF st.raised
                      THEN [g EXCEPT !.pc = "raised",
                                     !.ret = ValueError("UCS requires non-negative step costs.")]
                      ELSE g)

(***************************************************************************)
(* algos/search/astar.py                                                   *)
(***************************************************************************)
astar_PQItem(f, g, tie, state) == [f |-> f, g |-> g, tie |-> tie, state |-> state]

\* _PQItem ordering (order=True, state excluded): by f, then g, then tie.
\* The comparison without the g field: f first, then the tie-breaker.
astar_lt_no_g(a, b) == a.f < b.f \/ (a.f = b.f /\ a.tie < b.tie)

astar_lt(a, b) ==
    \/ a.f < b.f
    \/ (a.f = b.f /\ a.g < b.g)
    \/ (a.f = b.f /\ a.g = b.g /\ a.tie < b.tie)

astar_heappop(heap) == CHOOSE a \in heap : \A b \in heap \ {a} : astar_lt(a, b)

astar_init ==
    [algo |-> "astar", pc |-> "loop", ret |-> NoResult,
     heap |-> {astar_PQItem(h(kwargs.start), 0, 0, kwargs.start)},
     tie |-> 0,
     g_cost |-> (kwargs.start :> 0),
     parent |-> (kwargs.start :> None),
     expanded |-> 0, frontier_max |-> 1,
     trace |-> kwargs.trace, ncalls |-> 0]

\* for nxt, step in neighbors(cur): as in ucs, with f = new_g + h(nxt).
RECURSIVE astar_for(_, _, _, _)
astar_for(nbrs, cur, cur_g, st) ==
    IF nbrs = <<>> THEN st
    ELSE LET nxt == Head(nbrs)[1]
             step == Head(nbrs)[2]
             new_g == cur_g + step
         IN  IF step < 0 THEN [st EXCEPT !.raised = TRUE]
             ELSE IF nxt \notin DOMAIN st.g_cost \/ new_g < st.g_cost[nxt]
             THEN Bind([st EXCEPT !.g_cost = (nxt :> new_g) @@ st.g_cost,
                                  !.parent = (nxt :> cur) @@ st.parent,
                                  !.tie = st.tie + 1,
                                  !.heap = st.heap \cup
                                      {astar_PQItem(new_g + h(nxt), new_g,
                                                    st.tie + 1, nxt)}],
                       LAMBDA new : astar_for(Tail(nbrs), cur, cur_g, new))
             ELSE astar_for(Tail(nbrs), cur, cur_g, st)

\* One iteration of `while heap`, or the return after the loop.
astar_loop(f) ==
    IF f.heap = {}
    THEN [f EXCEPT !.pc = "returned",
                   !.ret = exhausted(f)]
    ELSE Bind(astar_heappop(f.heap), LAMBDA item :
         LET frontier_max == high_water(f.frontier_max, Cardinality(f.heap))
             heap == f.heap \ {item}
             cur == item.state
             cur_g == item.g
             expanded == f.expanded + 1
             trace == Traced(f.trace, cur)
         IN  IF stale(cur_g, g_cost_get(f.g_cost, cur))
             THEN [f EXCEPT !.heap = heap, !.frontier_max = frontier_max]
             ELSE
             IF is_goal(cur)
             THEN LET path == reconstruct_path(f.parent, cur) IN
                  [f EXCEPT !.pc = "returned", !.heap = heap,
                            !.expanded = expanded, !.frontier_max = frontier_max,
                            !.trace = trace,
                            !.ret = SearchResult(TRUE, path, f.g_cost[cur],
                                                 expanded, frontier_max)]
             ELSE LET st == Bind(neighbors(cur), LAMBDA nbrs :
                                 astar_for(nbrs, cur, cur_g,
                                           [g_cost |-> f.g_cost, parent |-> f.parent,
                                            tie |-> f.tie, heap |-> heap,
                                            raised |-> FALSE]))
                      g == [f EXCEPT !.heap = st.heap, !.parent = st.parent,
                                     !.g_cost = st.g_cost, !.tie = st.tie,
                                     !.expanded = expanded,
                                     !.frontier_max = frontier_max,
                                     !.trace = trace, !.ncalls = f.ncalls + 1]
                  IN  IF st.raised
                      THEN [g EXCEPT !.pc = "raised",
                                     !.ret = ValueError("A* requires non-negative step costs.")]
                      ELSE g)

(***************************************************************************)
(* algos/search/bds.py                                                     *)
(* pc is "loop" at the top of `while q_f and q_b` and "loop_b" between the *)
(* start-side and the goal-side expansion of one iteration.                *)
(***************************************************************************)
\* From the start == goal test to the while loop.
bds_setup ==
    IF kwargs.start = kwargs.goal
    THEN [algo |-> "bds", pc |-> "returned",
          ret |-> SearchResult(TRUE, <<kwargs.start>>, 0, 1, 1),
          expanded |-> 0, frontier_max |-> 0,
          trace |-> kwargs.trace, ncalls |-> 0]
    ELSE [algo |-> "bds", pc |-> "loop", ret |-> NoResult,
          q_f |-> <<kwargs.start>>,
          q_b |-> <<kwargs.goal>>,
          parent_f |-> (kwargs.start :> None),
          parent_b |-> (kwargs.goal :> None),
          expanded |-> 0, frontier_max |-> 2,
          trace |-> kwargs.trace, ncalls |-> 0]

\* An entry that does not test the goal for None.
bds_init_unchecked == bds_setup

bds_init ==
    IF kwargs.goal = None
    THEN [algo |-> "bds", pc |-> "raised",
          ret |-> ValueError("bds requires goal=... (explicit goal state)."),
          expanded |-> 0, frontier_max |-> 0,
          trace |-> kwargs.trace, ncalls |-> 0]
    ELSE bds_setup

\* A loop that notes the meeting state and goes on to the remaining
\* neighbors.
RECURSIVE expand_for_all(_, _, _, _)
expand_for_all(nbrs, cur, parent_other, st) ==
    IF nbrs = <<>> THEN st
    ELSE LET nxt == Head(nbrs)[1] IN
         IF nxt \in DOMAIN st.parent_this
         THEN expand_for_all(Tail(nbrs), cur, parent_other, st)
         ELSE LET parent_this == (nxt :> cur) @@ st.parent_this IN
              IF nxt \in DOMAIN parent_other
              THEN Bind([st EXCEPT !.parent_this = parent_this, !.meet = nxt],
                        LAMBDA new : expand_for_all(Tail(nbrs), cur, parent_other, new))
              ELSE Bind([st EXCEPT !.parent_this = parent_this,
                                   !.q = Append(st.q, nxt)],
                        LAMBDA new : expand_for_all(Tail(nbrs), cur, parent_other, new))

\* expand's for nxt, _ in neighbors(cur): the effect on q and parent_this;
\* meet is the state returned, None when the loop runs to its end.
RECURSIVE expand_for(_, _, _, _)
expand_for(nbrs, cur, parent_other, st) ==
    IF nbrs = <<>> THEN st
    ELSE LET nxt == Head(nbrs)[1] IN
         IF nxt \in DOMAIN st.parent_this
         THEN expand_for(Tail(nbrs), cur, parent_other, st)
         ELSE LET parent_this == (nxt :> cur) @@ st.parent_this IN
              IF nxt \in DOMAIN parent_other
              THEN [st EXCEPT !.parent_this = parent_this, !.meet = nxt]
              ELSE Bind([st EXCEPT !.parent_this = parent_this,
                                   !.q = Append(st.q, nxt)],
                        LAMBDA new : expand_for(Tail(nbrs), cur, parent_other, new))

\* expand(q, parent_this, parent_other)
expand(q, parent_this, parent_other) ==
    LET cur == Head(q) IN
    Bind(neighbors(cur), LAMBDA nbrs :
         expand_for(nbrs, cur, parent_other,
                    [q |-> Tail(q), parent_this |-> parent_this, meet |-> None]))

\* A splice that keeps the meeting state of both halves.
bds_full_keep_meet(parent_f, parent_b, meet) ==
    reconstruct_path(parent_f, meet) \o Reverse(reconstruct_path(parent_b, meet))

\* A splice of the goal-side half as it was walked, from the goal to the
\* meeting state.
bds_full_unreversed(parent_f, parent_b, meet) ==
    reconstruct_path(parent_f, meet) \o Tail(reconstruct_path(parent_b, meet))

\* The path built once the two sides have met.
bds_full(parent_f, parent_b, meet) ==
    LET path_f == reconstruct_path(parent_f, meet)
        path_b == Reverse(reconstruct_path(parent_b, meet))
    IN  path_f \o Tail(path_b)

\* The top of the while loop and the start-side expansion, or the return
\* after the loop.
bds_loop(f) ==
    IF f.q_f = <<>> \/ f.q_b = <<>>
    THEN [f EXCEPT !.pc = "returned",
                   !.ret = exhausted(f)]
    ELSE Bind(expand(f.q_f, f.parent_f, f.parent_b), LAMBDA e :
         LET frontier_max == Max(f.frontier_max, Len(f.q_f) + Len(f.q_b))
             g == [f EXCEPT !.q_f = e.q, !.parent_f = e.parent_this,
                            !.expanded = f.expanded + 1,
                            !.frontier_max = frontier_max,
                            !.trace = Traced(f.trace, Head(f.q_f)),
                            !.ncalls = f.ncalls + 1]
         IN  IF e.meet # None
             THEN LET full == bds_full(g.parent_f, g.parent_b, e.meet) IN
                  [g EXCEPT !.pc = "returned",
                            !.ret = SearchResult(TRUE, full, steps(full),
                                                 g.expanded, g.frontier_max)]
             ELSE [g EXCEPT !.pc = "loop_b"])

\* An iteration that leaves the goal side alone.
bds_loop_b_skipped(f) == [f EXCEPT !.pc = "loop"]

\* The goal-side expansion of the iteration.
bds_loop_b(f) ==
    Bind(expand(f.q_b, f.parent_b, f.parent_f), LAMBDA e :
    LET g == [f EXCEPT !.q_b = e.q, !.parent_b = e.parent_this,
                       !.expanded = f.expanded + 1,
                       !.trace = Traced(f.trace, Head(f.q_b)),
                       !.ncalls = f.ncalls + 1]
    IN  IF e.meet # None
        THEN LET full == bds_full(g.parent_f, g.parent_b, e.meet) IN
             [g EXCEPT !.pc = "returned",
                       !.ret = SearchResult(TRUE, full, steps(full),
                                            g.expanded, g.frontier_max)]
        ELSE [g EXCEPT !.pc = "loop"])

(***************************************************************************)
(* utils/registry.py, main.py, Tools/verify_maps.py                        *)
(***************************************************************************)
\* ALGOS: the frame an algorithm starts its loop with.
ALGOS(name) ==
    CASE name = "astar" -> astar_init
      [] name = "dfs"   -> dfs_init
      [] name = "bfs"   -> bfs_init
      [] name = "ucs"   -> ucs_init
      [] name = "dls"   -> dls_init
      [] name = "bds"   -> bds_init

\* verify_maps runs these on every map, in this order.
algos == <<"astar", "bds", "bfs", "dfs", "dls", "ucs">>

AlgoNames == {algos[i] : i \in DOMAIN algos}

\* The arguments run_once passes: every algorithm takes the ones it has a
\* parameter for (goal is passed to bds only, depth_limit is never passed,
\* so dls runs with its default).
run_once_kwargs(env) ==
    [start |-> env.start, neighbors |-> <<>>, tolls |-> <<>>, goal |-> env.goal,
     depth_limit |-> depth_limit_default,
     has_trace |-> TRUE, trace |-> <<>>]

\* The map of r x c cells with the start at s, the goal at g and the tiles
\* of b on the other cells.
MapOf(r, c, s, g, b) ==
    [i \in 0 .. r - 1 |-> [j \in 0 .. c - 1 |->
        IF <<i, j>> = s THEN START
        ELSE IF <<i, j>> = g THEN GOAL
        ELSE b[<<i, j>>]]]

\* verify_maps loads a map and runs every algorithm on it.  The maps are all
\* the rectangular maps of at most MaxCells cells with one start, one goal
\* and FloorTiles elsewhere.
LoadedFrom(m) ==
    LET env == from_file(m) IN
    /\ env.kind = "GridWorld"
    /\ grid = env.grid
    /\ start = env.start
    /\ goal = env.goal
    /\ kwargs = run_once_kwargs(env)
    /\ todo = algos
    /\ frame = Idle
    /\ other = Idle
    /\ results = [a \in AlgoNames |-> NoResult]

\* Larger maps run besides the enumerated ones: the 3 x 3 ring around a
\* wall, with every start and goal on it, and the corridor one step longer
\* than the default depth limit of dls.
RingCells == ((0 .. 2) \X (0 .. 2)) \ {<<1, 1>>}

RingMaps ==
    { MapOf(3, 3, sg[1], sg[2], [x \in {<<1, 1>>} |-> WALL] @@ [x \in RingCells |-> "F"])
      : sg \in {x \in RingCells \X RingCells : x[1] # x[2]} }

CorridorMap ==
    LET n == depth_limit_default + 2 IN
    MapOf(1, n, <<0, 0>>, <<0, n - 1>>, [x \in {0} \X (0 .. n - 1) |-> "F"])

\* The 5 x 5 floor with a wall down column 2 from row 0 to row 3, the start
\* in the top left corner and the goal in the top right one.
ScenarioMap ==
    MapOf(5, 5, <<0, 0>>, <<0, 4>>,
          [x \in (0 .. 4) \X (0 .. 4) |-> IF x[2] = 2 /\ x[1] <= 3 THEN WALL ELSE "F"])

\* The open 3 x 3 floor with mud above its centre: the centre has all four
\* neighbors.
PlazaMap ==
    MapOf(3, 3, <<0, 0>>, <<2, 2>>,
          [x \in (0 .. 2) \X (0 .. 2) |-> IF x = <<0, 1>> THEN "M" ELSE "F"])

ExtraMaps == RingMaps \cup {CorridorMap, ScenarioMap, PlazaMap}

\* The ring with the goal on a dead end below its bottom row: the depth
\* first descent reaches the cell above the goal five steps deep, the other
\* way round reaches it three steps deep.
RingTailMap ==
    MapOf(4, 3, <<0, 0>>, <<3, 1>>,
          [x \in {<<1, 1>>, <<3, 0>>, <<3, 2>>} |-> WALL] @@ [x \in RingCells |-> "F"])

Init ==
    \/ \E r \in 1 .. MaxCells, c \in 1 .. MaxCells :
        /\ r * c <= MaxCells
        /\ LET cells == (0 .. r - 1) \X (0 .. c - 1) IN
           \E s \in cells, g \in cells :
               /\ s # g
               /\ \E b \in [cells \ {s, g} -> FloorTiles] :
                      LoadedFrom(MapOf(r, c, s, g, b))
    \/ \E m \in ExtraMaps : LoadedFrom(m)

(***************************************************************************)
(* A caller of the library other than run_once: one algorithm is invoked   *)
(* once on a loaded map, with arguments of the caller's choosing.  ucs and *)
(* astar may get a neighbor function that reports a negative step cost for *)
(* one cell, bds may get no goal or the start as its goal, dls gets a      *)
(* depth limit of its caller.                                              *)
(***************************************************************************)
\* The maps of direct calls have at most this many cells (the rings and the
\* ring with a dead end besides).
MaxDirectCells == 4

\* The depth limits a caller passes to dls run from 0 to this.
MaxDepthLimit == 5

NegativeStep == -1

direct_kwargs(name, env) ==
    LET base == run_once_kwargs(env)
        cells == CellsOf(env.grid)
    IN  CASE name \in {"ucs", "astar"} ->
               {base} \cup {[base EXCEPT !.neighbors = (x :> NegativeStep)] : x \in cells}
          [] name = "bds" ->
               {base, [base EXCEPT !.goal = None], [base EXCEPT !.goal = env.start]}
          [] name = "dls" ->
               {[base EXCEPT !.depth_limit = d] : d \in 0 .. MaxDepthLimit}
          [] OTHER -> {base}

\* The calls the caller makes: the one algorithm, or dfs and then dls on the
\* same map (dfs has no depth_limit parameter).
direct_calls(name) ==
    IF name = "dls" THEN {<<"dls">>, <<"dfs", "dls">>} ELSE {<<name>>}

DirectCall(m) ==
    LET env == from_file(m) IN
    /\ env.kind = "GridWorld"
    /\ grid = env.grid
    /\ start = env.start
    /\ goal = env.goal
    /\ \E name \in AlgoNames :
          /\ kwargs \in direct_kwargs(name, env)
          /\ todo \in direct_calls(name)
    /\ frame = Idle
    /\ other = Idle
    /\ results = [a \in AlgoNames |-> NoResult]

InitDirect ==
    \/ \E r \in 1 .. MaxDirectCells, c \in 1 .. MaxDirectCells :
        /\ r * c <= MaxDirectCells
        /\ LET cells == (0 .. r - 1) \X (0 .. c - 1) IN
           \E s \in cells, g \in cells :
               /\ s # g
               /\ \E b \in [cells \ {s, g} -> FloorTiles] :
                      DirectCall(MapOf(r, c, s, g, b))
    \/ \E m \in RingMaps \cup {RingTailMap} : DirectCall(m)

\* run_once calls the next algorithm: the code from the function's entry to
\* its while loop runs.
call ==
    /\ frame.pc = "idle"
    /\ todo # <<>>
    /\ frame' = ALGOS(Head(todo))
    /\ todo' = Tail(todo)
    /\ UNCHANGED <<grid, start, goal, kwargs, results, other>>

Running(name, pc) == frame.algo = name /\ frame.pc = pc

bfs ==
    /\ Running("bfs", "loop")
    /\ frame' = bfs_loop(frame)
    /\ UNCHANGED <<grid, start, goal, kwargs, todo, results, other>>

dfs ==
    /\ Running("dfs", "loop")
    /\ frame' = dfs_loop(frame)
    /\ UNCHANGED <<grid, start, goal, kwargs, todo, results, other>>

dls ==
    /\ Running("dls", "loop")
    /\ frame' = dls_loop(frame)
    /\ UNCHANGED <<grid, start, goal, kwargs, todo, results, other>>

ucs ==
    /\ Running("ucs", "loop")
    /\ frame' = ucs_loop(frame)
    /\ UNCHANGED <<grid, start, goal, kwargs, todo, results, other>>

astar ==
    /\ Running("astar", "loop")
    /\ frame' = astar_loop(frame)
    /\ UNCHANGED <<grid, start, goal, kwargs, todo, results, other>>

bds ==
    /\ Running("bds", "loop")
    /\ frame' = bds_loop(frame)
    /\ UNCHANGED <<grid, start, goal, kwargs, todo, results, other>>

bds_b ==
    /\ Running("bds", "loop_b")
    /\ frame' = bds_loop_b(frame)
    /\ UNCHANGED <<grid, start, goal, kwargs, todo, results, other>>

\* The invocation ends: the caller has its SearchResult, or the exception.
return ==
    /\ frame.pc \in {"returned", "raised"}
    /\ results' = [results EXCEPT ![frame.algo] = frame.ret]
    /\ frame' = Idle
    /\ UNCHANGED <<grid, start, goal, kwargs, todo, other>>

Next ==
    \/ call
    \/ bfs
    \/ dfs
    \/ dls
    \/ ucs
    \/ astar
    \/ bds
    \/ bds_b
    \/ return

Spec == Init /\ [][Next]_vars

SpecDirect == InitDirect /\ [][Next]_vars

\* An invocation is one synchronous, single-threaded computation: the
\* interpreter goes on to the next statement as long as there is one, so a
\* step that can be taken is taken.
\* The runs whose end is checked under that fairness: the direct calls, and
\* verify_maps on the scenario map.
InitFair ==
    \/ InitDirect
    \/ LoadedFrom(ScenarioMap)

SpecFair == InitFair /\ [][Next]_vars /\ WF_vars(Next)

(***************************************************************************)
(* verify_maps on any map file: the source is any rectangle of tile        *)
(* symbols, with as many start and goal symbols as its author typed.       *)
(* from_file raises on a source without a start or without a goal, and     *)
(* there is no GridWorld then.                                             *)
(***************************************************************************)
\* The sources have at most this many cells.
MaxSourceCells == 4

SourceTiles == {START, GOAL, "F", WALL}

InitSource ==
    \E r \in 1 .. MaxSourceCells, c \in 1 .. MaxSourceCells :
        /\ r * c <= MaxSourceCells
        /\ \E g \in [0 .. r - 1 -> [0 .. c - 1 -> SourceTiles]] : LoadedFrom(g)

SpecSource == InitSource /\ [][Next]_vars

(***************************************************************************)
(* A direct call whose caller hands in a trace list of its own, empty or   *)
(* with two states already in it.                                          *)
(***************************************************************************)
\* The lists a caller passes as trace.
caller_traces(env) == {<<>>, <<env.goal, env.start>>}

TracedCall(m) ==
    LET env == from_file(m) IN
    /\ env.kind = "GridWorld"
    /\ grid = env.grid
    /\ start = env.start
    /\ goal = env.goal
    /\ \E name \in AlgoNames :
          /\ \E k \in direct_kwargs(name, env), t \in caller_traces(env) :
                 kwargs = [k EXCEPT !.trace = t]
          /\ todo = <<name>>
    /\ frame = Idle
    /\ other = Idle
    /\ results = [a \in AlgoNames |-> NoResult]

InitTraced ==
    \/ \E r \in 1 .. MaxDirectCells, c \in 1 .. MaxDirectCells :
        /\ r * c <= MaxDirectCells
        /\ LET cells == (0 .. r - 1) \X (0 .. c - 1) IN
           \E s \in cells, g \in cells :
               /\ s # g
               /\ \E b \in [cells \ {s, g} -> FloorTiles] :
                      TracedCall(MapOf(r, c, s, g, b))
    \/ \E m \in RingMaps \cup {RingTailMap} : TracedCall(m)

SpecTraced == InitTraced /\ [][Next]_vars

(***************************************************************************)
(* Two invocations on the same GridWorld at once: the caller starts a      *)
(* second algorithm while the first is in its loop, and the iterations of  *)
(* the two loops are taken in any order.  Both read the one grid, start    *)
(* and goal; q, parent, expanded and frontier_max are locals of each call. *)
(***************************************************************************)
\* The maps of two runs at once have at most this many cells (the rings
\* with the start in the top left corner and the ring with a dead end
\* besides).
MaxPairCells == 3

\* One iteration of the while loop of the invocation f.
Step(f) ==
    CASE f.algo = "bfs"   -> bfs_loop(f)
      [] f.algo = "dfs"   -> dfs_loop(f)
      [] f.algo = "dls"   -> dls_loop(f)
      [] f.algo = "ucs"   -> ucs_loop(f)
      [] f.algo = "astar" -> astar_loop(f)
      [] f.algo = "bds" /\ f.pc = "loop"   -> bds_loop(f)
      [] f.algo = "bds" /\ f.pc = "loop_b" -> bds_loop_b(f)

InLoop(f) == f.pc \in {"loop", "loop_b"}

\* A second invocation whose count of expansions is the first one's: a
\* counter of the module instead of a local of the call.
locals_shared(name) ==
    IF InLoop(frame)
    THEN [ALGOS(name) EXCEPT !.expanded = frame.expanded]
    ELSE ALGOS(name)

\* The locals a call starts its loop with are built by the call.
locals(name) == ALGOS(name)

PairCall(m) ==
    LET env == from_file(m) IN
    /\ env.kind = "GridWorld"
    /\ grid = env.grid
    /\ start = env.start
    /\ goal = env.goal
    /\ \E a \in AlgoNames, b \in AlgoNames :
          /\ kwargs \in direct_kwargs(a, env)
          /\ todo = <<a, b>>
    /\ frame = Idle
    /\ other = Idle
    /\ results = [a \in AlgoNames |-> NoResult]

InitPair ==
    \/ \E r \in 1 .. MaxPairCells, c \in 1 .. MaxPairCells :
        /\ r * c <= MaxPairCells
        /\ LET cells == (0 .. r - 1) \X (0 .. c - 1) IN
           \E s \in cells, g \in cells :
               /\ s # g
               /\ \E b \in [cells \ {s, g} -> FloorTiles] :
                      PairCall(MapOf(r, c, s, g, b))
    \/ \E m \in {x \in RingMaps : x[0][0] = START} \cup {RingTailMap} : PairCall(m)

\* The caller starts the next algorithm as the second invocation.
call_other ==
    /\ other.pc = "idle"
    /\ todo # <<>>
    /\ other' = locals(Head(todo))
    /\ todo' = Tail(todo)
    /\ UNCHANGED <<grid, start, goal, kwargs, frame, results>>

\* The second invocation takes one iteration of its loop.
step_other ==
    /\ InLoop(other)
    /\ other' = Step(other)
    /\ UNCHANGED <<grid, start, goal, kwargs, todo, frame, results>>

\* The second invocation ends.
return_other ==
    /\ other.pc \in {"returned", "raised"}
    /\ results' = [results EXCEPT ![other.algo] = other.ret]
    /\ other' = Idle
    /\ UNCHANGED <<grid, start, goal, kwargs, todo, frame>>

NextPair ==
    \/ Next
    \/ call_other
    \/ step_other
    \/ return_other

SpecPair == InitPair /\ [][NextPair]_vars

\* What the invocation f gives its caller when its loop runs on undisturbed.
RECURSIVE Run(_)
Run(f) == IF InLoop(f) THEN Run(Step(f)) ELSE f.ret

\* What the algorithm gives when it is the only run on the map.
Alone(name) == Run(ALGOS(name))

(***************************************************************************)
(* Runs in which a state is reached a second time at a lower cost while    *)
(* its first heap entry is still waiting: astar on a map with water (cost  *)
(* 10 breaks the parity of the costs 1 and 5), and ucs or astar called     *)
(* with a neighbor function that prices one move of the grid at Toll.      *)
(* With env.neighbors4 alone ucs never holds such an entry: the cost of a  *)
(* step is that of its destination, and states are expanded in the order   *)
(* of their cost.                                                          *)
(***************************************************************************)
Toll == 2

\* Mud and water between the start and the goal: astar reaches <<0, 2>>
\* first at cost 12 and then at cost 11.
WaterMap ==
    MapOf(2, 5, <<1, 0>>, <<1, 4>>,
          (<<0, 0>> :> "M") @@ (<<0, 1>> :> "M") @@ (<<0, 2>> :> "F") @@
          (<<0, 3>> :> WALL) @@ (<<0, 4>> :> "F") @@
          (<<1, 1>> :> "W") @@ (<<1, 2>> :> "F") @@ (<<1, 3>> :> "M"))

\* The 2 x 3 floor with the start and the goal in opposite corners: with
\* the move from <<1, 0>> to <<1, 1>> at Toll, ucs reaches <<1, 1>> at cost
\* 3 and then at cost 2.
CornersMap ==
    MapOf(2, 3, <<0, 0>>, <<1, 2>>, [x \in (0 .. 1) \X (0 .. 2) |-> "F"])

\* The moves of the grid env: the pairs of neighboring cells.
moves(env) ==
    {e \in CellsOf(env.grid) \X CellsOf(env.grid) :
        Abs(e[1][1] - e[2][1]) + Abs(e[1][2] - e[2][2]) = 1}

toll_kwargs(name, env) ==
    LET base == run_once_kwargs(env) IN
    direct_kwargs(name, env) \cup
    IF name \in {"ucs", "astar"}
    THEN {[base EXCEPT !.tolls = (e :> Toll)] : e \in moves(env)}
    ELSE {}

TollCall(m) ==
    LET env == from_file(m) IN
    /\ env.kind = "GridWorld"
    /\ grid = env.grid
    /\ start = env.start
    /\ goal = env.goal
    /\ \E name \in AlgoNames :
          /\ kwargs \in toll_kwargs(name, env)
          /\ todo = <<name>>
    /\ frame = Idle
    /\ other = Idle
    /\ results = [a \in AlgoNames |-> NoResult]

InitToll ==
    \/ \E r \in 1 .. MaxDirectCells, c \in 1 .. MaxDirectCells :
        /\ r * c <= MaxDirectCells
        /\ LET cells == (0 .. r - 1) \X (0 .. c - 1) IN
           \E s \in cells, g \in cells :
               /\ s # g
               /\ \E b \in [cells \ {s, g} -> FloorTiles] :
                      TollCall(MapOf(r, c, s, g, b))
    \/ \E m \in RingMaps \cup {RingTailMap, WaterMap, CornersMap} : TollCall(m)

SpecToll == InitToll /\ [][Next]_vars

(***************************************************************************)
(* What the claims are measured against: reachability, the unweighted      *)
(* distance and the least weighted cost, computed from the grid alone.     *)
(***************************************************************************)
Cells == (0 .. rows - 1) \X (0 .. cols - 1)

Open == {s \in Cells : grid[s[1]][s[2]] # "O"}

Adjacent(a, b) == Abs(a[1] - b[1]) + Abs(a[2] - b[2]) = 1

Around(s) ==
    {<<s[1] - 1, s[2]>>, <<s[1] + 1, s[2]>>, <<s[1], s[2] - 1>>, <<s[1], s[2] + 1>>}
    \cap Open

\* The number of edges of a shortest path from the cells of front to the
\* goal, d being the distance of front from the start; inf if there is none.
\* Sixteen layers at a time: dist is -1 while the answer is open.
RECURSIVE LayerSome(_, _, _, _)
LayerSome(seen, front, d, k) ==
    IF goal \in front THEN [seen |-> seen, front |-> front, d |-> d, dist |-> d]
    ELSE LET next == (UNION {Around(s) : s \in front}) \ seen IN
         IF next = {} THEN [seen |-> seen, front |-> front, d |-> d, dist |-> inf]
         ELSE IF k = 0 THEN [seen |-> seen, front |-> front, d |-> d, dist |-> -1]
         ELSE LayerSome(seen \cup next, next, d + 1, k - 1)

RECURSIVE LayerDist(_, _, _)
LayerDist(seen, front, d) ==
    LET r == LayerSome(seen, front, d, 16) IN
    IF r.dist # -1 THEN r.dist ELSE LayerDist(r.seen, r.front, r.d)

ShortestDist == LayerDist({start}, {start}, 0)

Reachable == ShortestDist # inf

Min(a, b) == IF a <= b THEN a ELSE b

RECURSIVE MinOver(_, _)
MinOver(S, D) ==
    IF S = {} THEN inf
    ELSE LET s == CHOOSE x \in S : TRUE IN Min(D[s], MinOver(S \ {s}, D))

\* Bellman-Ford: the least sum of entry costs over the paths from the start.
RelaxOnce(D) ==
    [s \in Open |->
        LET via == MinOver(Around(s), D) IN
        IF via = inf THEN D[s] ELSE Min(D[s], via + step_cost(s))]

\* At most k rounds of relaxation.
RECURSIVE RelaxSome(_, _)
RelaxSome(D, k) ==
    IF k = 0 THEN D
    ELSE LET E == RelaxOnce(D) IN
         IF E = D THEN D ELSE RelaxSome(E, k - 1)

\* Relaxation to the fixed point, sixteen rounds at a time.
RECURSIVE Relaxed(_)
Relaxed(D) ==
    LET E == RelaxSome(D, 16) IN
    IF RelaxOnce(E) = E THEN E ELSE Relaxed(E)

MinCost == Relaxed([s \in Open |-> IF s = start THEN 0 ELSE inf])[goal]

Returned(name) == frame.algo = name /\ frame.pc = "returned"

Found(name) == Returned(name) /\ frame.ret.found

Edges(path) == Len(path) - 1

\* path leads from the start to the goal by steps between orthogonally
\* adjacent cells, all of them in bounds and none a wall.
ValidPath(path) ==
    /\ path # <<>>
    /\ path[1] = start
    /\ Last(path) = goal
    /\ \A i \in 1 .. Len(path) : path[i] \in Open
    /\ \A i \in 1 .. Len(path) - 1 : Adjacent(path[i], path[i + 1])

\* C1: whenever an algorithm returns found = true on a GridWorld, its path
\* starts at the start, ends at the goal, moves between orthogonally adjacent
\* in-bounds cells and holds no wall.
C1_PathValid ==
    \A a \in AlgoNames : Found(a) => ValidPath(frame.ret.path)

\* bds has returned a path of at least four edges spliced from its two halves.
C1_Witness ==
    /\ Found("bds")
    /\ ValidPath(frame.ret.path)
    /\ Edges(frame.ret.path) >= 4
    /\ Cardinality(DOMAIN frame.parent_b) >= 3

\* C2 as claimed: on every map with a reachable goal each of the six
\* algorithms (dls with its default depth limit) returns found = true.
C2_AllFound ==
    \A a \in AlgoNames : (Returned(a) /\ Reachable) => frame.ret.found

\* C2 as amended: bfs, dfs, ucs, astar and bds find every reachable goal;
\* dls finds it exactly when the shortest distance is within depth_limit.
C2_FoundWithinLimit ==
    /\ \A a \in AlgoNames \ {"dls"} : (Returned(a) /\ Reachable) => frame.ret.found
    /\ Returned("dls") => (frame.ret.found <=> ShortestDist <= kwargs.depth_limit)

\* Every algorithm but dls has found the goal at the end of the corridor that
\* is longer than the depth limit; and dls has found a goal some steps away.
C2_Witness ==
    \/ /\ Found("dfs")
       /\ ShortestDist > depth_limit_default
    \/ /\ Found("dls")
       /\ ShortestDist >= 4

\* C3: on a map whose goal cannot be reached, each algorithm returns a
\* SearchResult (no error is raised) with found = false, path = [] and
\* cost = +infinity.
C3_Exhausted ==
    \A a \in AlgoNames :
        (frame.algo = a /\ frame.pc \in {"returned", "raised"} /\ ~Reachable) =>
            /\ frame.ret.kind = "SearchResult"
            /\ frame.ret.found = FALSE
            /\ frame.ret.path = <<>>
            /\ frame.ret.cost = inf

\* bds has given up after expanding from both sides of a blocked map.
C3_Witness ==
    /\ Returned("bds")
    /\ ~Reachable
    /\ frame.ret.found = FALSE
    /\ frame.expanded >= 3

\* C4: on every map with a reachable goal, the path of bfs has as many edges
\* as the shortest unweighted distance from start to goal, and that is its cost.
C4_BfsShortest ==
    (Returned("bfs") /\ Reachable) =>
        /\ frame.ret.found
        /\ Edges(frame.ret.path) = ShortestDist
        /\ frame.ret.cost = ShortestDist

\* bfs has returned a shortest path of four edges or more where it has
\* expanded cells that are not on it.
C4_Witness ==
    /\ Found("bfs")
    /\ ShortestDist >= 4
    /\ frame.expanded > Len(frame.ret.path)

\* C5: on every map with a reachable goal, the path of bds (one expansion
\* per side in turn, stopping at the first meeting state) has as many edges
\* as the shortest unweighted distance from start to goal.
C5_BdsShortest ==
    (Returned("bds") /\ Reachable) =>
        /\ frame.ret.found
        /\ Edges(frame.ret.path) = ShortestDist

\* bds has met on the goal-side expansion, after both sides have grown.
C5_Witness ==
    /\ Found("bds")
    /\ ShortestDist >= 4
    /\ frame.expanded % 2 = 0
    /\ Cardinality(DOMAIN frame.parent_f) >= 3

\* C6: on every weighted map with a reachable goal, the cost of ucs is the
\* least sum of entry costs over all paths from start to goal.
C6_UcsMinCost ==
    (Returned("ucs") /\ Reachable) =>
        /\ frame.ret.found
        /\ frame.ret.cost = MinCost

\* ucs has returned a cheapest path that is longer than the shortest one.
C6_Witness ==
    /\ Found("ucs")
    /\ frame.ret.cost = MinCost
    /\ Edges(frame.ret.path) > ShortestDist

\* C7: astar with the Manhattan heuristic returns the same found flag and
\* the same cost as ucs on the same map.
C7_AstarAsUcs ==
    (Returned("ucs") /\ results["astar"].kind = "SearchResult") =>
        /\ frame.ret.found = results["astar"].found
        /\ frame.ret.cost = results["astar"].cost

\* Both have returned a cost that the weights, not the step count, decide.
C7_Witness ==
    /\ Found("ucs")
    /\ results["astar"].kind = "SearchResult"
    /\ results["astar"].found
    /\ results["astar"].cost = frame.ret.cost
    /\ frame.ret.cost > ShortestDist

\* C8: astar with the Manhattan heuristic expands no more states than ucs
\* on the same map.
C8_AstarExpandsNoMore ==
    (Returned("ucs") /\ results["astar"].kind = "SearchResult") =>
        results["astar"].expanded <= frame.ret.expanded

\* astar has expanded strictly fewer states than ucs.
C8_Witness ==
    /\ Found("ucs")
    /\ results["astar"].kind = "SearchResult"
    /\ results["astar"].expanded < frame.ret.expanded

HasNegative(pairs) == \E i \in 1 .. Len(pairs) : pairs[i][2] < 0

\* C9: when the neighbor function yields a pair with a negative step cost
\* while ucs or astar expands a state, the run ends by raising the error of
\* the invalid edge cost and the caller gets no SearchResult.
C9_NegativeRaises ==
    \A a \in {"ucs", "astar"} :
        (/\ frame.algo = a
         /\ kwargs.has_trace
         /\ \E i \in Len(kwargs.trace) + 1 .. Len(frame.trace) :
                ~is_goal(frame.trace[i]) /\ HasNegative(neighbors(frame.trace[i])))
        => (frame.pc = "raised" /\ frame.ret.kind = "ValueError")

\* astar has raised in the middle of a run, after earlier expansions.
C9_Witness ==
    /\ frame.algo = "astar"
    /\ frame.pc = "raised"
    /\ frame.ret.kind = "ValueError"
    /\ frame.expanded >= 2
    /\ HasNegative(neighbors(Last(frame.trace)))

\* C10: bds called without a goal raises the configuration error before
\* any search work: the neighbor function is not called, nothing is appended
\* to the trace, and no SearchResult is produced.
C10_BdsNeedsGoal ==
    kwargs.goal = None =>
        /\ frame.algo = "bds" =>
               /\ frame.pc = "raised"
               /\ frame.ret.kind = "ValueError"
               /\ frame.ncalls = 0
               /\ frame.expanded = 0
               /\ frame.trace = kwargs.trace
        /\ results["bds"].kind \in {"none", "ValueError"}

\* bds has been called without a goal and the caller has the error.
C10_Witness ==
    /\ kwargs.goal = None
    /\ results["bds"].kind = "ValueError"
    /\ frame = Idle

\* C11: bds called with its start as the goal returns found = true,
\* path = [start] and cost = 0 without entering the frontier loop: no
\* neighbor call is made, nothing is appended to the trace, and the expanded
\* count of the result is 0.
C11_BdsStartIsGoal ==
    (frame.algo = "bds" /\ kwargs.goal = kwargs.start) =>
        /\ frame.pc = "returned"
        /\ frame.ret.found
        /\ frame.ret.path = <<kwargs.start>>
        /\ frame.ret.cost = 0
        /\ frame.ncalls = 0
        /\ frame.trace = kwargs.trace
        /\ frame.ret.expanded = 0

\* What the code does there: the same, but the result counts one expansion.
C11_BdsStartIsGoalCountsOne ==
    (frame.algo = "bds" /\ kwargs.goal = kwargs.start) =>
        /\ frame.pc = "returned"
        /\ frame.ret.found
        /\ frame.ret.path = <<kwargs.start>>
        /\ frame.ret.cost = 0
        /\ frame.ncalls = 0
        /\ frame.trace = kwargs.trace
        /\ frame.ret.expanded = 1

\* The caller has the result of bds called with its start as the goal.
C11_Witness ==
    /\ kwargs.goal = kwargs.start
    /\ frame = Idle
    /\ results["bds"].kind = "SearchResult"
    /\ results["bds"].found

\* C12: dls called with depth_limit = 0 on a map whose start is not its goal
\* returns found = false.
C12_DlsLimitZero ==
    (Returned("dls") /\ kwargs.depth_limit = 0 /\ kwargs.start # goal) =>
        /\ frame.ret.kind = "SearchResult"
        /\ frame.ret.found = FALSE

\* dls has given up at depth 0 next to a goal that is one step away: the
\* start has been popped and counted, and no neighbor has been asked for.
C12_Witness ==
    /\ Returned("dls")
    /\ kwargs.depth_limit = 0
    /\ ShortestDist = 1
    /\ frame.ret.found = FALSE
    /\ frame.expanded = 1
    /\ frame.ncalls = 0

\* C13: dls returns found = false whenever every path from the start to the
\* goal has more than depth_limit edges; whenever it returns found = true,
\* its path has at most depth_limit edges.
C13_DlsWithinLimit ==
    Returned("dls") =>
        /\ ShortestDist > kwargs.depth_limit => frame.ret.found = FALSE
        /\ frame.ret.found => Edges(frame.ret.path) <= kwargs.depth_limit

\* dls has searched down to a limit of two or more and given up on a goal
\* that can be reached, but only by a longer path.
C13_Witness ==
    /\ Returned("dls")
    /\ kwargs.depth_limit >= 2
    /\ Reachable
    /\ ShortestDist > kwargs.depth_limit
    /\ frame.ret.found = FALSE
    /\ frame.expanded > kwargs.depth_limit

\* C14: for any map and any depth_limit at least as large as the number of
\* non-wall cells, dls returns found = true exactly when dfs returns
\* found = true on the same map.
C14_DlsAsDfs ==
    (/\ Returned("dls")
     /\ results["dfs"].kind = "SearchResult"
     /\ kwargs.depth_limit >= Cardinality(Open)) =>
        (frame.ret.found <=> results["dfs"].found)

\* dfs and dls have both found a goal that lies as deep as the map allows,
\* dls with a limit equal to the number of non-wall cells.
C14_Witness ==
    /\ Found("dls")
    /\ results["dfs"].kind = "SearchResult"
    /\ results["dfs"].found
    /\ kwargs.depth_limit = Cardinality(Open)
    /\ Cardinality(Open) >= 4
    /\ ShortestDist = Cardinality(Open) - 1

\* The loaded map is the scenario map.
OnScenarioMap == rows = 5 /\ cols = 5 /\ grid = ScenarioMap

\* C15 as claimed: on the 5 x 5 floor with walls at column 2 in rows 0 to 3,
\* start (0,0) and goal (0,4), bfs returns a path of 9 states (8 edges,
\* cost 8) that passes through row 4, and astar with the Manhattan heuristic
\* returns cost 8 and expands no more states than bfs.
C15_Scenario ==
    (OnScenarioMap /\ Returned("bfs")) =>
        /\ frame.ret.found
        /\ Len(frame.ret.path) = 9
        /\ frame.ret.cost = 8
        /\ \E i \in 1 .. Len(frame.ret.path) : frame.ret.path[i][1] = 4
        /\ results["astar"].kind = "SearchResult"
        /\ results["astar"].found
        /\ results["astar"].cost = 8
        /\ results["astar"].expanded <= frame.ret.expanded

\* C15 as amended: on that map bfs returns a path of 13 states (12 edges,
\* cost 12) that passes through row 4, and astar with the Manhattan
\* heuristic returns cost 12 and expands no more states than bfs.
C15_ScenarioTwelve ==
    (OnScenarioMap /\ Returned("bfs")) =>
        /\ frame.ret.found
        /\ Len(frame.ret.path) = 13
        /\ frame.ret.cost = 12
        /\ \E i \in 1 .. Len(frame.ret.path) : frame.ret.path[i][1] = 4
        /\ results["astar"].kind = "SearchResult"
        /\ results["astar"].found
        /\ results["astar"].cost = 12
        /\ results["astar"].expanded <= frame.ret.expanded

\* bfs has returned on the scenario map, through the gap at (4, 2), after
\* astar has; the goal is twelve steps away and each has expanded 21 states.
C15_Witness ==
    /\ OnScenarioMap
    /\ Found("bfs")
    /\ \E i \in 1 .. Len(frame.ret.path) : frame.ret.path[i] = <<4, 2>>
    /\ ShortestDist = 12
    /\ frame.ret.expanded = 21
    /\ results["astar"].kind = "SearchResult"
    /\ results["astar"].expanded = 21

\* C17: whenever bfs, dfs, dls or bds returns found = true, the cost it
\* reports is the number of edges of its path, len(path) - 1, whatever the
\* entry costs of the tiles on the path.
C17_CostIsSteps ==
    \A a \in {"bfs", "dfs", "dls", "bds"} :
        Found(a) => frame.ret.cost = Len(frame.ret.path) - 1

\* bds has returned a path over mud: its weighted cost is larger than the
\* step count it reports.
C17_Witness ==
    /\ Found("bds")
    /\ Edges(frame.ret.path) >= 3
    /\ PathCost(frame.ret.path) > Edges(frame.ret.path)
    /\ frame.ret.cost = Edges(frame.ret.path)

\* C18: whenever ucs or astar returns found = true, the cost it reports is
\* the sum of the step costs along its path, the entry cost of every path
\* cell but the start; no heuristic value is part of the cost of astar.
C18_CostIsPathCost ==
    \A a \in {"ucs", "astar"} :
        Found(a) => frame.ret.cost = PathCost(frame.ret.path)

\* astar has returned a path over mud from a start whose heuristic value is
\* not 0: the cost is more than the step count and is the sum of the weights.
C18_Witness ==
    /\ Found("astar")
    /\ h(kwargs.start) >= 2
    /\ frame.ret.cost > Edges(frame.ret.path)
    /\ frame.ret.cost = PathCost(frame.ret.path)

C20_InterleavedAsAlone ==
    /\ \A f \in {frame, other} :
           f.pc \in {"returned", "raised"} => f.ret = Alone(f.algo)
    /\ \A a \in AlgoNames :
           results[a] # NoResult => results[a] = Alone(a)

\* The second run has returned a path after at least two expansions while
\* the first, another algorithm, is two expansions into its loop.
C20_Witness ==
    /\ other.pc = "returned"
    /\ other.ret.found
    /\ other.ret.expanded >= 2
    /\ InLoop(frame)
    /\ frame.expanded >= 2
    /\ frame.algo # other.algo

Beside(s) ==
    << <<s[1] - 1, s[2]>>, <<s[1] + 1, s[2]>>, <<s[1], s[2] - 1>>, <<s[1], s[2] + 1>> >>

\* The cost of entering cell c: 5 for mud, 10 for water, 1 for anything else.
EntryCost(c) ==
    CASE grid[c[1]][c[2]] = "M" -> 5
      [] grid[c[1]][c[2]] = "W" -> 10
      [] OTHER -> 1

InBoundsOpen(c) ==
    /\ c[1] \in 0 .. rows - 1
    /\ c[2] \in 0 .. cols - 1
    /\ grid[c[1]][c[2]] # "O"

\* What neighbors4(s) has to yield.
Yielded(s) ==
    LET open == SelectSeq(Beside(s), InBoundsOpen) IN
    [i \in 1 .. Len(open) |-> <<open[i], EntryCost(open[i])>>]

\* C21: for every in-bounds cell s, neighbors4(s) yields exactly those of the
\* cells above, below, left and right of s, in that order, that are in bounds
\* and not walls, each paired with the entry cost of the destination cell;
\* never more than 4 pairs, never a wall, never a cell out of bounds.
C21_Neighbors4 ==
    \A s \in (0 .. rows - 1) \X (0 .. cols - 1) :
        LET pairs == neighbors4(s) IN
        /\ pairs = Yielded(s)
        /\ Len(pairs) <= 4
        /\ \A i \in 1 .. Len(pairs) : InBoundsOpen(pairs[i][1])

\* A run has just expanded a cell all four of whose neighbors are yielded,
\* one of them at the cost of mud, on a map where another cell has a wall
\* or the border beside it.
C21_Witness ==
    /\ frame.pc = "loop"
    /\ frame.ncalls >= 1
    /\ frame.trace # <<>>
    /\ Len(neighbors4(Last(frame.trace))) = 4
    /\ \E i \in 1 .. 4 : neighbors4(Last(frame.trace))[i][2] = 5
    /\ \E s \in Cells : Len(neighbors4(s)) = 2

Marked(ch) == {s \in Cells : grid[s[1]][s[2]] = ch}

\* C22: every GridWorld produced by loading a map has exactly one cell marked
\* start and exactly one cell marked goal, and its start and goal fields are
\* the coordinates of those cells (a source with several start cells or
\* several goal cells yields no loaded environment).
C22_OneStartOneGoal ==
    /\ Marked(START) = {start}
    /\ Marked(GOAL) = {goal}

\* C22, as the loader behaves: a loaded GridWorld has at least one cell marked
\* start and at least one marked goal, and its start and goal fields are the
\* last such cells in row-major order.
C22_LastStartLastGoal ==
    /\ start \in Marked(START)
    /\ goal \in Marked(GOAL)
    /\ \A s \in Marked(START) : RowMajorLE(s, start)
    /\ \A s \in Marked(GOAL) : RowMajorLE(s, goal)

\* A source with two start cells has been loaded and searched: bfs returned
\* a path from the later one.
C22_Witness ==
    /\ Cardinality(Marked(START)) = 2
    /\ Returned("bfs")
    /\ frame.ret.found
    /\ Len(frame.ret.path) >= 2
    /\ frame.ret.path[1] = start

\* The state the next loop iteration of f takes from its frontier.
Popped(f) ==
    CASE f.algo = "bfs"   -> Head(f.q)
      [] f.algo = "dfs"   -> Last(f.stack)
      [] f.algo = "dls"   -> Last(f.stack)[1]
      [] f.algo = "ucs"   -> ucs_heappop(f.heap).state
      [] f.algo = "astar" -> astar_heappop(f.heap).state
      [] f.algo = "bds" /\ f.pc = "loop"   -> Head(f.q_f)
      [] f.algo = "bds" /\ f.pc = "loop_b" -> Head(f.q_b)

\* The caller's list after a step: what the caller put in is still its
\* prefix.
KeepsPrefix(f) ==
    /\ Len(f.trace) >= Len(kwargs.trace)
    /\ SubSeq(f.trace, 1, Len(kwargs.trace)) = kwargs.trace

\* A loop iteration leaves the list alone and counts nothing, or appends the
\* state it took from the frontier and counts one expansion.
AppendsExpanded(f, g) ==
    IF g.trace = f.trace
    THEN g.expanded = f.expanded
    ELSE /\ g.trace = Append(f.trace, Popped(f))
         /\ g.expanded = f.expanded + 1

AppendedCount(f) == Len(f.trace) - Len(kwargs.trace)

C23_Step ==
    /\ frame'.pc # "idle" => KeepsPrefix(frame')
    /\ InLoop(frame) => AppendsExpanded(frame, frame')
    /\ frame'.pc = "returned" => AppendedCount(frame') = frame'.ret.expanded

\* C23: when a trace list is supplied to any of the six algorithms, the
\* algorithm only appends to it: the contents present before the call remain
\* as an unchanged prefix, the appended states are exactly the expanded
\* states in expansion order, and on return the number of appended states
\* equals the result's expanded count.
C23_TraceAppendOnly == [][C23_Step]_vars

C23_StepPastStart ==
    /\ frame'.pc # "idle" => KeepsPrefix(frame')
    /\ InLoop(frame) => AppendsExpanded(frame, frame')
    /\ (frame'.pc = "returned" /\ ~(frame'.algo = "bds" /\ kwargs.start = kwargs.goal))
           => AppendedCount(frame') = frame'.ret.expanded

\* C23, as the code behaves: the same, but bds called with the start as its
\* goal returns an expanded count of 1 and appends nothing.
C23_TraceAppendOnlyPastStart == [][C23_StepPastStart]_vars

\* A run that was handed a list of two states has returned a path after
\* three expansions or more, and the list holds the two and the expanded
\* states after them.
C23_Witness ==
    /\ Len(kwargs.trace) = 2
    /\ frame.pc = "returned"
    /\ frame.ret.found
    /\ frame.ret.expanded >= 3
    /\ AppendedCount(frame) = frame.ret.expanded
    /\ KeepsPrefix(frame)

\* The number of entries the frontier of f holds.
Size(f) ==
    CASE f.algo = "bfs" -> Len(f.q)
      [] f.algo \in {"dfs", "dls"} -> Len(f.stack)
      [] f.algo \in {"ucs", "astar"} -> Cardinality(f.heap)
      [] f.algo = "bds" -> Len(f.q_f) + Len(f.q_b)

\* The largest frontier of the run that goes on from f, m being the largest
\* so far.  Within one loop iteration the frontier shrinks by the popped
\* entry and then grows push by push, so it is largest before or after it.
RECURSIVE Largest(_, _)
Largest(f, m) ==
    IF InLoop(f)
    THEN Bind(Step(f), LAMBDA g : Largest(g, IF Size(g) > m THEN Size(g) ELSE m))
    ELSE m

\* The largest frontier of the whole run of the algorithm.
LargestFrontier(name) == Largest(ALGOS(name), Size(ALGOS(name)))

\* C24: for bfs, dfs, dls, ucs and astar, the frontier_max of the returned
\* result is the largest number of entries, stale heap entries included,
\* that the frontier held at any moment of the run.
C24_FrontierMax ==
    (frame.algo \in {"bfs", "dfs", "dls", "ucs", "astar"} /\ frame.pc = "returned")
        => frame.ret.frontier_max = LargestFrontier(frame.algo)

\* ucs or astar has returned after discarding a stale entry (more entries
\* popped than states expanded), with a frontier that grew to three or more.
C24_Witness ==
    /\ frame.algo \in {"ucs", "astar"}
    /\ frame.pc = "returned"
    /\ frame.tie + 1 - Cardinality(frame.heap) > frame.ret.expanded
    /\ frame.ret.frontier_max >= 3

\* C25: for bds, the frontier_max of the returned result is the largest
\* combined size of the start-side and goal-side queues reached at any moment
\* of the run, the moment between the two expansions of one outer iteration
\* included.
C25_BdsFrontierMax ==
    (frame.algo = "bds" /\ frame.pc = "returned" /\ kwargs.start # kwargs.goal)
        => frame.ret.frontier_max = LargestFrontier("bds")

\* The largest combined size the queues of bds have at the top of an outer
\* iteration that is entered, in the run that goes on from f.
RECURSIVE LargestAtTop(_, _)
LargestAtTop(f, m) ==
    IF InLoop(f)
    THEN Bind(Step(f), LAMBDA g :
              LargestAtTop(g, IF /\ g.pc = "loop"
                                 /\ g.q_f # <<>>
                                 /\ g.q_b # <<>>
                                 /\ Size(g) > m
                              THEN Size(g) ELSE m))
    ELSE m

\* C25, as the code measures: the frontier_max of bds is the largest combined
\* size the two queues have at the top of an outer iteration; what they hold
\* between the two expansions, or when a meeting ends the run, is not
\* measured.
C25_BdsFrontierMaxAtTop ==
    (frame.algo = "bds" /\ frame.pc = "returned" /\ kwargs.start # kwargs.goal)
        => /\ frame.ret.frontier_max = LargestAtTop(ALGOS("bds"), Size(ALGOS("bds")))
           /\ frame.ret.frontier_max <= LargestFrontier("bds")

\* bds has returned a frontier_max smaller than the combined size its queues
\* had reached.
C25_Witness ==
    /\ frame.algo = "bds"
    /\ frame.pc = "returned"
    /\ kwargs.start # kwargs.goal
    /\ frame.ret.frontier_max < LargestFrontier("bds")

\* dls is about to pop an entry whose depth has reached the limit.
DlsPopsAtLimit ==
    /\ frame.algo = "dls"
    /\ frame.pc = "loop"
    /\ frame.stack # <<>>
    /\ Last(frame.stack)[2] >= kwargs.depth_limit

\* The popped entry is counted and its neighbors are not generated: nothing
\* is pushed and no parent or depth is recorded.
CountedNotGenerated ==
    /\ frame'.expanded = frame.expanded + 1
    /\ frame'.ncalls = frame.ncalls
    /\ frame'.stack = Pop(frame.stack)
    /\ frame'.parent = frame.parent
    /\ frame'.best_depth_seen = frame.best_depth_seen

C26_Step == DlsPopsAtLimit => (CountedNotGenerated /\ frame'.pc = "loop")

\* C26: in dls, a popped stack entry whose depth is greater than or equal to
\* depth_limit is counted as expanded but is neither goal-tested (the run
\* goes on whatever the state is) nor has its neighbors generated.
C26_AtLimitNoGoalTest == [][C26_Step]_vars

C26_StepGoalTested ==
    DlsPopsAtLimit =>
        /\ CountedNotGenerated
        /\ IF Last(frame.stack)[1] = goal
           THEN frame'.pc = "returned" /\ frame'.ret.found
           ELSE frame'.pc = "loop"

\* C26, as the code behaves: the entry is counted as expanded and goal-tested
\* (the goal popped at the limit ends the run with found = true), and its
\* neighbors are not generated.
C26_AtLimitGoalTested == [][C26_StepGoalTested]_vars

\* dls has returned a path of exactly depth_limit edges, two or more: the
\* goal was popped at the limit.
C26_Witness ==
    /\ Returned("dls")
    /\ frame.ret.found
    /\ kwargs.depth_limit >= 2
    /\ Len(frame.ret.path) - 1 = kwargs.depth_limit
    /\ frame.ncalls < frame.expanded - 1

\* dls takes a loop iteration.
DlsStep == frame.algo = "dls" /\ frame.pc = "loop" /\ frame'.algo = "dls"

\* The states whose stack entries the iteration pushed, with their depths.
Pushed ==
    IF frame.stack = <<>> THEN <<>>
    ELSE SubSeq(frame'.stack, Len(frame.stack), Len(frame'.stack))

NeverDiscovered(s) == s \notin DOMAIN frame.best_depth_seen

\* One iteration: the entries below the popped one stay; every pushed entry
\* is one level below the popped one, for a state never discovered or
\* recorded deeper, and no state is pushed twice; exactly the pushed states
\* get the new depth and the popped state as parent.
C27_Step ==
    DlsStep =>
        /\ frame.stack # <<>> => Pop(frame.stack) = SubSeq(frame'.stack, 1, Len(frame.stack) - 1)
        /\ \A i \in 1 .. Len(Pushed) :
               LET s == Pushed[i][1]
                   d == Pushed[i][2]
                   earlier == {j \in 1 .. i - 1 : Pushed[j][1] = s}
               IN  /\ d = Last(frame.stack)[2] + 1
                   /\ \/ NeverDiscovered(s)
                      \/ s \in DOMAIN frame.best_depth_seen /\ d < frame.best_depth_seen[s]
                   /\ earlier = {}
        /\ \A s \in DOMAIN frame'.best_depth_seen :
               IF \E i \in 1 .. Len(Pushed) : Pushed[i][1] = s
               THEN /\ frame'.best_depth_seen[s] = Last(frame.stack)[2] + 1
                    /\ frame'.parent[s] = Last(frame.stack)[1]
               ELSE /\ s \in DOMAIN frame.best_depth_seen
                    /\ frame'.best_depth_seen[s] = frame.best_depth_seen[s]
                    /\ frame'.parent[s] = frame.parent[s]
        /\ \A s \in DOMAIN frame.best_depth_seen :
               /\ s \in DOMAIN frame'.best_depth_seen
               /\ frame'.best_depth_seen[s] <= frame.best_depth_seen[s]
        /\ frame'.parent[kwargs.start] = None

\* C27: in dls, a state is pushed onto the stack, and its parent and recorded
\* depth updated, only when it has never been discovered or is reached at a
\* depth strictly smaller than its recorded depth; so a state's recorded depth
\* never increases during a run, and the start is never given a parent.
C27_PushOnlyShallower == [][C27_Step]_vars

\* dls has pushed a state a second time, at a smaller depth than the one it
\* had recorded, and has gone on to return a path through it.
C27_Witness ==
    /\ Returned("dls")
    /\ frame.ret.found
    /\ \E i \in 2 .. Len(frame.ret.path) :
           /\ frame.best_depth_seen[frame.ret.path[i]] = i - 1
           /\ Cardinality({j \in 1 .. Len(frame.trace) : frame.trace[j] = frame.ret.path[i]}) >= 2

\* C28: in dls, no state is expanded from a stack entry whose depth is
\* greater than the shallowest depth recorded for that state at the moment
\* the entry is popped: the entry on top of the stack, and every entry below
\* it, carries the depth recorded for its state.
C28_NoObsoleteEntry ==
    (frame.algo = "dls" /\ frame.pc = "loop")
        => \A i \in 1 .. Len(frame.stack) :
               frame.stack[i][2] <= frame.best_depth_seen[frame.stack[i][1]]

\* dls is about to pop an entry for a state it has expanded before at a
\* greater depth: the entry carries the smaller depth now recorded.
C28_Witness ==
    /\ frame.algo = "dls"
    /\ frame.pc = "loop"
    /\ frame.stack # <<>>
    /\ \E j \in 1 .. Len(frame.trace) : frame.trace[j] = Last(frame.stack)[1]
    /\ Last(frame.stack)[2] = frame.best_depth_seen[Last(frame.stack)[1]]
    /\ Last(frame.stack)[2] < kwargs.depth_limit

\* The entry the next loop iteration of ucs or astar pops.
PoppedItem(f) ==
    IF f.algo = "ucs" THEN ucs_heappop(f.heap) ELSE astar_heappop(f.heap)

\* ucs or astar is about to pop an entry whose g is not the best known g of
\* its state.
PopsStale ==
    /\ frame.algo \in {"ucs", "astar"}
    /\ frame.pc = "loop"
    /\ frame.heap # {}
    /\ PoppedItem(frame).g # frame.g_cost[PoppedItem(frame).state]

C29_Step ==
    PopsStale =>
        /\ frame'.expanded = frame.expanded
        /\ frame'.trace = frame.trace
        /\ frame'.pc = "loop"
        /\ frame'.ncalls = frame.ncalls
        /\ frame'.heap = frame.heap \ {PoppedItem(frame)}
        /\ frame'.g_cost = frame.g_cost
        /\ frame'.parent = frame.parent
        /\ frame'.tie = frame.tie

\* C29: in ucs and astar, a popped frontier entry whose recorded g differs
\* from the state's current best-known g is discarded as stale: it is not
\* counted in expanded, not appended to the trace, not goal-tested, and none
\* of its neighbors are generated.
C29_StaleDiscarded == [][C29_Step]_vars

\* The entries popped so far by the ucs or astar run f.
Pops(f) == f.tie + 1 - Cardinality(f.heap)

\* astar, called with env.neighbors4 on the map with water, has popped more
\* entries than it has expanded states and is still in its loop.
C29_Witness ==
    /\ frame.algo = "astar"
    /\ frame.pc = "loop"
    /\ kwargs.tolls = <<>>
    /\ kwargs.neighbors = <<>>
    /\ Pops(frame) > frame.expanded

\* ucs or astar takes a loop iteration.
Relaxes ==
    /\ frame.algo \in {"ucs", "astar"}
    /\ frame.pc = "loop"
    /\ frame'.algo = frame.algo

\* The entries of heap for the state s.
EntriesFor(heap, s) == {e \in heap : e.state = s}

\* What an iteration that expanded the popped entry and ran through all its
\* neighbors did to the neighbor nxt, reached at new_g.
RelaxedExactly(item, nxt, new_g) ==
    IF nxt \notin DOMAIN frame.g_cost \/ new_g < frame.g_cost[nxt]
    THEN /\ frame'.g_cost[nxt] = new_g
         /\ frame'.parent[nxt] = item.state
         /\ \E e \in frame'.heap :
                /\ e.g = new_g
                /\ e.tie > frame.tie
                /\ EntriesFor(frame'.heap, nxt) = EntriesFor(frame.heap, nxt) \cup {e}
    ELSE /\ frame'.g_cost[nxt] = frame.g_cost[nxt]
         /\ frame'.parent[nxt] = frame.parent[nxt]
         /\ EntriesFor(frame'.heap, nxt) = EntriesFor(frame.heap, nxt) \ {item}

C30_Step ==
    Relaxes =>
        /\ \A s \in DOMAIN frame.g_cost :
               /\ s \in DOMAIN frame'.g_cost
               /\ frame'.g_cost[s] <= frame.g_cost[s]
        /\ (frame'.pc = "loop" /\ frame'.expanded = frame.expanded + 1) =>
               LET item == PoppedItem(frame)
                   nbrs == neighbors(item.state)
                   reached == {nbrs[i][1] : i \in 1 .. Len(nbrs)}
               IN  /\ \A i \in 1 .. Len(nbrs) :
                          RelaxedExactly(item, nbrs[i][1], item.g + nbrs[i][2])
                   /\ DOMAIN frame'.g_cost = DOMAIN frame.g_cost \cup reached
                   /\ \A s \in DOMAIN frame.g_cost \ reached :
                          /\ frame'.g_cost[s] = frame.g_cost[s]
                          /\ frame'.parent[s] = frame.parent[s]

\* C30: in ucs and astar, a neighbor's best-known cost and parent are updated
\* and the neighbor is (re-)enqueued exactly when it is undiscovered or the
\* path through the current state is strictly cheaper than its best-known
\* cost; an equal-cost or costlier path changes nothing, so a state's
\* best-known g never increases during a run.
C30_RelaxStrictly == [][C30_Step]_vars

\* ucs has enqueued a state again at a lower cost: the heap holds an entry
\* for it at its best-known cost and an older, costlier one.
C30_Witness ==
    /\ frame.algo = "ucs"
    /\ frame.pc = "loop"
    /\ \E e \in frame.heap :
           /\ e.g > frame.g_cost[e.state]
           /\ \E b \in frame.heap : b.state = e.state /\ b.g = frame.g_cost[e.state]

(***************************************************************************)
(* C31 .. C39                                                              *)
(***************************************************************************)
\* The compared fields of a frontier entry of the ucs or astar run f, in
\* the order of their declaration.
Key(f, e) == IF f.algo = "ucs" THEN <<e.g, e.tie>> ELSE <<e.f, e.g, e.tie>>

\* Tuple s is before tuple t in the lexicographic order.
LexLess(s, t) ==
    \E i \in 1 .. Len(s) :
        /\ s[i] < t[i]
        /\ \A j \in 1 .. (i - 1) : s[j] = t[j]

\* The ucs or astar run is about to pop an entry.
PopsEntry ==
    /\ frame.algo \in {"ucs", "astar"}
    /\ frame.pc = "loop"
    /\ frame.heap # {}

C31_Step ==
    PopsEntry =>
        LET gone == frame.heap \ frame'.heap
            pushed == frame'.heap \ frame.heap
        IN  /\ Cardinality(gone) = 1
            /\ \A e \in gone : \A b \in frame.heap \ gone :
                   LexLess(Key(frame, e), Key(frame, b))
            /\ \A e \in gone : \A b \in frame.heap \ gone :
                   (e.g = b.g /\ (frame.algo = "astar" => e.f = b.f))
                       => e.tie < b.tie
            /\ \A a \in frame.heap, b \in frame.heap :
                   a # b => a.tie # b.tie
            /\ \A e \in pushed : e.tie > frame.tie
            /\ \A a \in pushed, b \in pushed : a # b => a.tie # b.tie
            /\ frame'.tie = frame.tie + Cardinality(pushed)
            /\ \A e \in frame.heap : e.tie <= frame.tie

\* C31: every pop of the priority frontier of ucs and astar removes the one
\* entry that is least under the key (g, insertion index), respectively
\* (f, g, insertion index); the insertion index grows by one with every push
\* and no two entries share it, so among entries of equal priority the one
\* inserted first is popped first and the states are never compared.
C31_PopsLeastKey == [][C31_Step]_vars

\* astar holds two frontier entries of equal f of which the one inserted
\* later has the smaller g, after at least one expansion.
C31_Witness ==
    /\ frame.algo = "astar"
    /\ frame.pc = "loop"
    /\ frame.expanded >= 1
    /\ \E a \in frame.heap, b \in frame.heap :
           a.f = b.f /\ a.g < b.g /\ a.tie > b.tie

\* Every cost the caller's function reports is non-negative (the entry
\* costs of the tiles are 1, 5 and 10).
NonNegativeCosts ==
    /\ \A x \in DOMAIN kwargs.neighbors : kwargs.neighbors[x] >= 0
    /\ \A e \in DOMAIN kwargs.tolls : kwargs.tolls[e] >= 0

\* The states the run f has expanded, in order (its trace).
ExpandedStates(f) == {f.trace[i] : i \in 1 .. Len(f.trace)}

C32_Step ==
    (PopsEntry /\ frame.algo = "ucs" /\ NonNegativeCosts) =>
        /\ \A s \in ExpandedStates(frame) :
               /\ frame'.g_cost[s] = frame.g_cost[s]
               /\ frame'.parent[s] = frame.parent[s]
        /\ frame'.expanded = frame.expanded => frame'.trace = frame.trace
        /\ frame'.expanded # frame.expanded =>
               LET item == PoppedItem(frame) IN
               /\ frame'.expanded = frame.expanded + 1
               /\ item.state \notin ExpandedStates(frame)
               /\ frame.trace # <<>> =>
                      item.g >= frame.g_cost[Last(frame.trace)]
               /\ frame'.trace = Append(frame.trace, item.state)
               /\ frame'.g_cost[item.state] = item.g
               /\ frame'.parent[item.state] = frame.parent[item.state]

\* C32: in a ucs run whose step costs are all non-negative, the g of every
\* expanded state is at least the g of the state expanded before it, no
\* state is expanded twice, and the best-known g and the parent of a state
\* never change once it has been expanded.
C32_ExpandedFinal == [][C32_Step]_vars

\* ucs, with non-negative costs, has expanded at least two states and still
\* holds a frontier entry for a state it has already expanded.
C32_Witness ==
    /\ frame.algo = "ucs"
    /\ frame.pc = "loop"
    /\ NonNegativeCosts
    /\ Len(frame.trace) >= 2
    /\ \E e \in frame.heap : e.state \in ExpandedStates(frame)

\* The states the bds run f has dequeued on the start side and on the goal
\* side while no meeting state has been found: the discovered states that
\* are no longer queued.
StartSideCount(f) == Cardinality(DOMAIN f.parent_f) - Len(f.q_f)
GoalSideCount(f) == Cardinality(DOMAIN f.parent_b) - Len(f.q_b)

\* The bds run dequeues a state.
BdsExpands ==
    /\ frame.algo = "bds"
    /\ InLoop(frame)
    /\ frame'.algo = "bds"
    /\ frame'.expanded = frame.expanded + 1

C33_Step ==
    /\ (frame.algo = "bds" /\ InLoop(frame) /\ frame'.algo = "bds") =>
           frame'.expanded \in {frame.expanded, frame.expanded + 1}
    /\ BdsExpands =>
           /\ frame'.expanded % 2 = 1 =>
                  /\ frame.q_f # <<>>
                  /\ frame'.trace = Append(frame.trace, Head(frame.q_f))
                  /\ frame'.q_b = frame.q_b
                  /\ frame'.parent_b = frame.parent_b
                  /\ StartSideCount(frame) = GoalSideCount(frame)
           /\ frame'.expanded % 2 = 0 =>
                  /\ frame.q_b # <<>>
                  /\ frame'.trace = Append(frame.trace, Head(frame.q_b))
                  /\ frame'.q_f = frame.q_f
                  /\ frame'.parent_f = frame.parent_f
                  /\ StartSideCount(frame) = GoalSideCount(frame) + 1
           /\ StartSideCount(frame) + GoalSideCount(frame) = frame.expanded
           /\ InLoop(frame') =>
                  /\ StartSideCount(frame') + GoalSideCount(frame') = frame'.expanded
                  /\ StartSideCount(frame') - GoalSideCount(frame') \in {0, 1}

\* C33: bds expands its two frontiers in strict alternation beginning with
\* the start side: the k-th expansion dequeues from the start-side queue
\* when k is odd and from the goal-side queue when k is even, so the number
\* of start-side expansions exceeds the number of goal-side expansions by 0
\* or 1 at every moment.
C33_Alternates == [][C33_Step]_vars

\* bds is about to expand the goal side after two start-side expansions and
\* one goal-side expansion.
C33_Witness ==
    /\ frame.algo = "bds"
    /\ frame.pc = "loop_b"
    /\ frame.expanded = 3
    /\ StartSideCount(frame) = 2
    /\ GoalSideCount(frame) = 1

\* The states in both parent mappings of the bds run f.
InBoth(f) == DOMAIN f.parent_f \cap DOMAIN f.parent_b

\* The states of the sequence q.
StatesOf(q) == {q[i] : i \in 1 .. Len(q)}

C34_Step ==
    (frame.algo = "bds" /\ InLoop(frame) /\ frame'.algo = "bds") =>
        LET discovered == (DOMAIN frame'.parent_f \ DOMAIN frame.parent_f)
                          \cup (DOMAIN frame'.parent_b \ DOMAIN frame.parent_b)
            found == frame'.pc = "returned" /\ frame'.ret.found
        IN  /\ InBoth(frame) = {}
            /\ InLoop(frame') => InBoth(frame') = {}
            /\ found <=> InBoth(frame') # {}
            /\ found =>
                   LET nbrs == neighbors(Last(frame'.trace)) IN
                   /\ Cardinality(InBoth(frame')) = 1
                   /\ \A m \in InBoth(frame') :
                          /\ m \in discovered
                          /\ m \in StatesOf(frame'.ret.path)
                          /\ m \notin DOMAIN frame.parent_f => m \notin StatesOf(frame'.q_f)
                          /\ m \notin DOMAIN frame.parent_b => m \notin StatesOf(frame'.q_b)
                          /\ \E i \in 1 .. Len(nbrs) :
                                 /\ nbrs[i][1] = m
                                 /\ \A j \in 1 .. Len(nbrs) :
                                        nbrs[j][1] \in discovered => j <= i
                   /\ frame'.expanded = frame.expanded + 1
                   /\ frame'.ret.expanded = frame'.expanded

\* C34: while bds runs, no state is in the parent mappings of both sides;
\* the expansion that first discovers a state the opposite side already
\* holds ends the run with found = true at that neighbor, no later neighbor
\* is discovered or queued and nothing more is dequeued, and that meeting
\* state is on the returned path.
C34_MeetsOnce == [][C34_Step]_vars

\* bds has returned a path while a neighbor of the state it expanded last
\* is discovered by neither side.
C34_Witness ==
    /\ frame.algo = "bds"
    /\ frame.pc = "returned"
    /\ frame.ret.found
    /\ frame.trace # <<>>
    /\ LET nbrs == neighbors(Last(frame.trace)) IN
       \E j \in 1 .. Len(nbrs) :
           nbrs[j][1] \notin DOMAIN frame.parent_f \cup DOMAIN frame.parent_b

\* The sides of the bfs, dfs or bds run f: 1 for the one frontier of bfs and
\* dfs and for the start side of bds, 2 for the goal side of bds.
SidesOf(f) == IF f.algo = "bds" THEN {1, 2} ELSE {1}

\* The frontier and the parent mapping of side k of the run f.
Side(f, k) ==
    CASE f.algo = "bfs" -> [q |-> f.q, parent |-> f.parent]
      [] f.algo = "dfs" -> [q |-> f.stack, parent |-> f.parent]
      [] f.algo = "bds" /\ k = 1 -> [q |-> f.q_f, parent |-> f.parent_f]
      [] f.algo = "bds" /\ k = 2 -> [q |-> f.q_b, parent |-> f.parent_b]

\* No state is twice in the sequence q.
NoRepeat(q) == \A i \in 1 .. Len(q), j \in 1 .. Len(q) : q[i] = q[j] => i = j

\* Expansions i and j of the run f are of the same side.
SameSide(f, i, j) == f.algo = "bds" => i % 2 = j % 2

C35_Step ==
    (frame.algo \in {"bfs", "dfs", "bds"} /\ InLoop(frame) /\ frame'.algo = frame.algo) =>
        /\ \A k \in SidesOf(frame) :
               LET a == Side(frame, k)
                   b == Side(frame', k)
                   reached == DOMAIN b.parent \ DOMAIN a.parent
               IN  /\ DOMAIN a.parent \subseteq DOMAIN b.parent
                   /\ \A s \in DOMAIN a.parent : b.parent[s] = a.parent[s]
                   /\ \A s \in reached : b.parent[s] = Last(frame'.trace)
                   /\ StatesOf(a.q) \subseteq DOMAIN a.parent
                   /\ StatesOf(b.q) \ StatesOf(a.q) \subseteq reached
                   /\ NoRepeat(a.q)
                   /\ NoRepeat(b.q)
        /\ \A i \in 1 .. Len(frame'.trace), j \in 1 .. Len(frame'.trace) :
               (SameSide(frame, i, j) /\ frame'.trace[i] = frame'.trace[j]) => i = j

\* C35: in bfs, dfs and each side of bds, a state is given a parent and put
\* on the frontier only when it is reached for the first time: its parent is
\* never assigned again, it is on the frontier at most once, and it is
\* expanded at most once (once per side in bds).
C35_ReachedOnce == [][C35_Step]_vars

\* bfs or dfs has expanded a state t next to a state s that already had
\* another parent; s has kept that parent and is on the frontier.
C35_Witness ==
    /\ frame.algo \in {"bfs", "dfs"}
    /\ frame.pc = "loop"
    /\ \E t \in StatesOf(frame.trace) :
           LET nbrs == neighbors(t) IN
           \E i \in 1 .. Len(nbrs) :
               /\ nbrs[i][1] \in DOMAIN frame.parent
               /\ frame.parent[nbrs[i][1]] # t
               /\ frame.parent[t] # nbrs[i][1]
               /\ nbrs[i][1] \in StatesOf(IF frame.algo = "bfs" THEN frame.q ELSE frame.stack)

\* C36: the path of every result with found = true, of every algorithm,
\* holds no state more than once; the path of dfs and dls has no cycle and
\* the meeting state of bds is on the spliced path exactly once.
C36_PathSimple ==
    (frame.pc = "returned" /\ frame.ret.found) => NoRepeat(frame.ret.path)

\* bds has returned a path of at least three states whose meeting state is
\* neither the start nor the goal.
C36_Witness ==
    /\ frame.algo = "bds"
    /\ frame.pc = "returned"
    /\ frame.ret.found
    /\ Len(frame.ret.path) >= 3
    /\ \E i \in 2 .. Len(frame.ret.path) - 1 :
           frame.ret.path[i] \in InBoth(frame)

\* The walk of reconstruct_path from cur finds every state it visits in the
\* mapping parent, visits no state of seen or any state twice, and ends at
\* the state anchor, the one whose parent is None.
RECURSIVE WalkEnds(_, _, _, _)
WalkEnds(parent, cur, seen, anchor) ==
    IF cur \notin DOMAIN parent \/ cur \in seen THEN FALSE
    ELSE IF parent[cur] = None THEN cur = anchor
    ELSE WalkEnds(parent, parent[cur], seen \cup {cur}, anchor)

\* The states on the frontier of the run f (of both frontiers in bds).
FrontierStates(f) ==
    CASE f.algo = "bfs" -> StatesOf(f.q)
      [] f.algo = "dfs" -> StatesOf(f.stack)
      [] f.algo = "dls" -> {f.stack[i][1] : i \in 1 .. Len(f.stack)}
      [] f.algo \in {"ucs", "astar"} -> {e.state : e \in f.heap}

\* The state reconstruct_path was invoked on by the run f that has returned
\* a path: the state popped last, or the meeting state of bds.
WalkedFrom(f) == IF f.algo = "bds" THEN InBoth(f) ELSE {Last(f.trace)}

\* C37: reconstruct_path is invoked only on a state that is in the parent
\* mapping it walks, and the walk along the parent links ends at the state
\* without a parent, the start (the goal on the goal side of bds), after
\* finitely many steps and without visiting a state twice, so the lookup
\* parent[cur] never fails; the same holds of every state on a frontier,
\* the states it can be invoked on.
C37_WalkReachesAnchor ==
    /\ (frame.pc = "returned" /\ frame.ret.found /\ frame.expanded > 0) =>
           /\ WalkedFrom(frame) # {}
           /\ \A s \in WalkedFrom(frame) :
                  IF frame.algo = "bds"
                  THEN /\ WalkEnds(frame.parent_f, s, {}, kwargs.start)
                       /\ WalkEnds(frame.parent_b, s, {}, kwargs.goal)
                  ELSE WalkEnds(frame.parent, s, {}, kwargs.start)
    /\ (InLoop(frame) /\ frame.algo = "bds") =>
           /\ \A s \in StatesOf(frame.q_f) :
                  WalkEnds(frame.parent_f, s, {}, kwargs.start)
           /\ \A s \in StatesOf(frame.q_b) :
                  WalkEnds(frame.parent_b, s, {}, kwargs.goal)
    /\ (InLoop(frame) /\ frame.algo \in {"bfs", "dfs", "dls", "ucs", "astar"}) =>
           \A s \in FrontierStates(frame) :
               WalkEnds(frame.parent, s, {}, kwargs.start)

\* dls has returned a path of at least four states on which a state lies
\* that it expanded twice: the walk went over a parent link that had been
\* replaced.
C37_Witness ==
    /\ frame.algo = "dls"
    /\ frame.pc = "returned"
    /\ frame.ret.found
    /\ Len(frame.ret.path) >= 4
    /\ \E i \in 2 .. Len(frame.ret.path) :
           /\ frame.parent[frame.ret.path[i]] = frame.ret.path[i - 1]
           /\ \E j \in 1 .. Len(frame.trace), k \in 1 .. Len(frame.trace) :
                  j < k /\ frame.trace[j] = frame.ret.path[i]
                        /\ frame.trace[k] = frame.ret.path[i]

\* The least element of the non-empty set S of numbers.
Least(S) == CHOOSE x \in S : \A y \in S : x <= y

\* One round of relaxation towards the goal: from s, a move into the
\* neighbor n costs the entry cost of n.
RelaxBackOnce(D) ==
    [s \in Open |->
        Least({D[s]} \cup {D[n] + step_cost(n) : n \in {m \in Around(s) : D[m] # inf}})]

RECURSIVE RelaxedBack(_, _)
RelaxedBack(D, k) ==
    LET E == RelaxBackOnce(D) IN
    IF E = D \/ k = 0 THEN D ELSE RelaxedBack(E, k - 1)

\* The least sum of entry costs over the paths from each passable cell to
\* the goal, inf where there is none.
CostToGoal ==
    RelaxedBack([s \in Open |-> IF s = goal THEN 0 ELSE inf], Cardinality(Open))

\* C38: the Manhattan heuristic is consistent with the entry costs of
\* step_cost: it is 0 at the goal, every entry cost yielded by neighbors4
\* is at least 1, and manhattan(s) <= c + manhattan(n) for every passable
\* cell s and every pair (n, c) of neighbors4(s); hence manhattan(s) is at
\* most the least weighted cost from s to the goal.
C38_ManhattanConsistent ==
    /\ manhattan(goal) = 0
    /\ \A s \in Open :
           LET pairs == neighbors4(s) IN
           \A i \in 1 .. Len(pairs) :
               /\ pairs[i][2] >= 1
               /\ manhattan(s) <= pairs[i][2] + manhattan(pairs[i][1])
    /\ LET D == CostToGoal IN
       \A s \in Open : manhattan(s) <= D[s]

\* astar has expanded a state on a map with water and mud where the goal
\* is at least two moves from a cell whose least cost to the goal exceeds
\* its Manhattan distance.
C38_Witness ==
    /\ frame.algo = "astar"
    /\ frame.pc = "loop"
    /\ frame.expanded >= 1
    /\ \E s \in Open : grid[s[1]][s[2]] = "W"
    /\ \E s \in Open : grid[s[1]][s[2]] = "M"
    /\ LET D == CostToGoal IN
       \E s \in Open : manhattan(s) >= 2 /\ manhattan(s) < D[s] /\ D[s] < inf

(***************************************************************************)
(* The same call with and without a trace list: the caller invokes an      *)
(* algorithm with trace=t and then again with the same arguments but       *)
(* without the trace parameter, which defaults to None.                    *)
(***************************************************************************)
UntracedCall(m) ==
    LET env == from_file(m) IN
    /\ env.kind = "GridWorld"
    /\ grid = env.grid
    /\ start = env.start
    /\ goal = env.goal
    /\ \E name \in AlgoNames :
          /\ \E k \in direct_kwargs(name, env), t \in caller_traces(env) :
                 kwargs = [k EXCEPT !.trace = t]
          /\ todo = <<name, name>>
    /\ frame = Idle
    /\ other = Idle
    /\ results = [a \in AlgoNames |-> NoResult]

InitUntraced ==
    \/ \E r \in 1 .. MaxDirectCells, c \in 1 .. MaxDirectCells :
        /\ r * c <= MaxDirectCells
        /\ LET cells == (0 .. r - 1) \X (0 .. c - 1) IN
           \E s \in cells, g \in cells :
               /\ s # g
               /\ \E b \in [cells \ {s, g} -> FloorTiles] :
                      UntracedCall(MapOf(r, c, s, g, b))
    \/ \E m \in RingMaps \cup {RingTailMap} : UntracedCall(m)

\* The caller invokes an algorithm it has a result of once more, leaving the
\* trace parameter out: trace is None in this call.
call_untraced ==
    /\ frame.pc = "idle"
    /\ todo # <<>>
    /\ kwargs.has_trace
    /\ UNCHANGED <<grid, start, goal, results, other>>
    /\ todo' = Tail(todo)
    /\ \E name \in AlgoNames :
          /\ name = Head(todo)
          /\ results[name] # NoResult
          /\ kwargs' = [kwargs EXCEPT !.has_trace = FALSE, !.trace = None]
          /\ frame' = ALGOS(name)'

NextUntraced ==
    \/ Next
    \/ call_untraced

SpecUntraced == InitUntraced /\ [][NextUntraced]_vars

\* C39: the trace never influences the search: the SearchResult (or the
\* exception) of a call without a trace list is the one the same call
\* returned when it was given a trace list, whatever the list held.
C39_TraceNoInfluence ==
    (frame.pc \in {"returned", "raised"} /\ ~kwargs.has_trace)
        => frame.ret = results[frame.algo]

\* The call without a trace has returned a result with at least three
\* expansions and a path, after the call with a trace list had returned.
C39_Witness ==
    /\ frame.pc = "returned"
    /\ ~kwargs.has_trace
    /\ frame.trace = None
    /\ results[frame.algo] # NoResult
    /\ frame.ret.found
    /\ frame.ret.expanded >= 3

====
